---- MODULE Spec2Model ----
(***************************************************************************)
(* Eulerian erosion pipeline (metarapi/eulerian-erosion).                  *)
(*                                                                         *)
(* The orchestrator (simulation.js) submits compute passes to one GPU      *)
(* queue; every pass is a kernel (a WGSL shader) run once per grid cell.   *)
(* Textures are functions from cells <<x, y>> to texels; f32 values are    *)
(* modelled as exact rationals <<numerator, denominator>> so that the      *)
(* conservation properties are statements about the algorithm and not      *)
(* about rounding.                                                         *)
(***************************************************************************)
EXTENDS Integers, Sequences, FiniteSets, TLC

VARIABLES
    pc,              \* position of executeErosionSimulation
    sizeX, sizeY,    \* buffers.sizeX, buffers.sizeY
    cfg,             \* the configuration record (uniform parameter blocks)
    noiseTex,        \* noise height per cell
    jfaSeedTex,      \* seed classification written by the noise kernel
    jfaTex,          \* [Ping, Pong] seed/distance grids
    jfaParams,       \* Uniforms {stepSize, computeMax} as last written
    jfaMaxBuffer,    \* global max-distance accumulator, Q16.16
    jfaInputIsPing,  \* simulation.js jfaInputIsPing
    blendedTerrainTex,
    terrainTex,      \* [Ping, Pong] terrain grids
    waterTex,        \* [Ping, Pong] water grids
    erosionIteration,\* ErosionParams.iteration as last written
    margolusParams,  \* MargolusParams {offset_x, offset_y, num_iterations}
    loopI,           \* loop counter of the running loop (i, or 4*p + sub-pass)
    currIsPing,      \* simulation.js currIsPing
    staging,         \* [terrain, water] staging buffers (padded rows)
    data,            \* the arrays returned by the run
    log,             \* the passes executed by the queue, in order
    injected,        \* ghost: water volume injected by droplets so far
    evaporated,      \* ghost: water volume evaporated so far
    sched,           \* per-invocation execution state of one dispatch
    host,            \* main.js: the page around a run (runSimulation)
    probe            \* the result of the kernel function applied last

vars == <<pc, sizeX, sizeY, cfg, noiseTex, jfaSeedTex, jfaTex, jfaParams,
          jfaMaxBuffer, jfaInputIsPing, blendedTerrainTex, terrainTex,
          waterTex, erosionIteration, margolusParams, loopI, currIsPing,
          staging, data, log, injected, evaporated, sched, host, probe>>

-----------------------------------------------------------------------------
(* Exact rational arithmetic standing for f32 arithmetic.                  *)

Rat == Int \X Int

Abs[n \in Int] == IF n < 0 THEN -n ELSE n

\* Euclid's algorithm on a pair <<a, b>>, four steps per level of recursion
EuclidStep[p \in Rat] == IF p[2] = 0 THEN p ELSE <<p[2], p[1] % p[2]>>
EuclidLoop[p \in Rat] ==
    IF p[2] = 0 THEN p[1]
    ELSE EuclidLoop[EuclidStep[EuclidStep[EuclidStep[EuclidStep[p]]]]]
GCD[a \in Int, b \in Int] == EuclidLoop[<<a, b>>]

\* the fraction n/d in lowest terms with a positive denominator
QReduce[n \in Int, d \in Int, g \in Int] ==
    IF d < 0 THEN <<(-n) \div g, (-d) \div g>> ELSE <<n \div g, d \div g>>
Q[n \in Int, d \in Int] == QReduce[n, d, GCD[Abs[n], Abs[d]]]

Zero == <<0, 1>>
One == <<1, 1>>
Half == <<1, 2>>
QInt[n \in Int] == <<n, 1>>

\* the operations divide by common factors first, to keep the products small
QAddG[a \in Rat, b \in Rat, g \in Int] ==
    Q[a[1] * (b[2] \div g) + b[1] * (a[2] \div g), (a[2] \div g) * b[2]]
QAdd[a \in Rat, b \in Rat] == QAddG[a, b, GCD[a[2], b[2]]]
QNeg[a \in Rat] == <<-a[1], a[2]>>
QSub[a \in Rat, b \in Rat] == QAdd[a, QNeg[b]]
QMulG[a \in Rat, b \in Rat, g1 \in Int, g2 \in Int] ==
    <<(a[1] \div g1) * (b[1] \div g2), (a[2] \div g2) * (b[2] \div g1)>>
QMul[a \in Rat, b \in Rat] ==
    IF a[1] = 0 \/ b[1] = 0 THEN Zero
    ELSE QMulG[a, b, GCD[Abs[a[1]], b[2]], GCD[Abs[b[1]], a[2]]]
QDiv[a \in Rat, b \in Rat] ==
    QMul[a, IF b[1] < 0 THEN <<-b[2], -b[1]>> ELSE <<b[2], b[1]>>]
QLtG[a \in Rat, b \in Rat, g \in Int] ==
    a[1] * (b[2] \div g) < b[1] * (a[2] \div g)
QLt[a \in Rat, b \in Rat] == QLtG[a, b, GCD[a[2], b[2]]]
QLe[a \in Rat, b \in Rat] == ~QLt[b, a]
QMax[a \in Rat, b \in Rat] == IF QLt[a, b] THEN b ELSE a
QMin[a \in Rat, b \in Rat] == IF QLt[b, a] THEN b ELSE a
QClamp[x \in Rat, lo \in Rat, hi \in Rat] == QMin[QMax[x, lo], hi]
\* WGSL mix(x, y, a) = x * (1 - a) + y * a
QMix[x \in Rat, y \in Rat, a \in Rat] == QAdd[QMul[x, QSub[One, a]], QMul[y, a]]
\* A texel channel holds finitely many bits: a stored value keeps FracBits
\* fractional bits (rounded down).  Within one invocation arithmetic is exact.
FracBits == 8
Pow2[n \in Nat] ==
    IF n >= 8 THEN 256 * Pow2[n - 8] ELSE <<1, 2, 4, 8, 16, 32, 64, 128>>[n + 1]
\* q rounded down to a multiple of 1 / 2^bits
FloorToG[q \in Rat, s \in Nat, g \in Int] ==
    Q[(q[1] * (s \div g)) \div (q[2] \div g), s]
FloorTo[q \in Rat, bits \in Nat] == FloorToG[q, Pow2[bits], GCD[Pow2[bits], q[2]]]
StoreF32[q \in Rat] == FloorTo[q, FracBits]

\* WGSL smoothstep(e0, e1, x): t = clamp((x - e0) / (e1 - e0), 0, 1); t*t*(3 - 2t)
\* (t is 0 up to e0 and 1 from e1 on); t and the result are rounded f32
\* values and keep FracBits fractional bits
Hermite[t \in Rat] == QMul[QMul[t, t], QSub[QInt[3], QMul[QInt[2], t]]]
QSmoothstep[e0 \in Rat, e1 \in Rat, x \in Rat] ==
    IF QLe[x, e0] THEN Zero
    ELSE IF QLe[e1, x] THEN One
    ELSE StoreF32[Hermite[StoreF32[QDiv[QSub[x, e0], QSub[e1, e0]]]]]

\* fixed-length loops over the 8 neighbours
Tuple8(e(_)) == SubSeq([i \in 1 .. 8 |-> e(i)], 1, 8)
Sum8(t) ==
    QAdd[QAdd[QAdd[t[1], t[2]], QAdd[t[3], t[4]]],
         QAdd[QAdd[t[5], t[6]], QAdd[t[7], t[8]]]]

-----------------------------------------------------------------------------
(* Grid geometry                                                           *)

Cells(w, h) == (0 .. w - 1) \X (0 .. h - 1)
InBounds(x, y, w, h) == x >= 0 /\ y >= 0 /\ x < w /\ y < h
CeilDiv(a, b) == (a + b - 1) \div b
\* a texture as created: every texel is zero
ZeroTexel == [r |-> Zero, g |-> Zero, b |-> Zero, a |-> Zero]
ZeroGrid(w, h) == [c \in Cells(w, h) |-> ZeroTexel]

\* cells in row-major order, and the sum of e over the cells of a grid of at
\* most 16 cells
CellAt(i, w) == <<(i - 1) % w, (i - 1) \div w>>
CellIndex(c, w) == c[2] * w + c[1] + 1
GridSum(e(_), w, h) ==
    LET v(i) == IF i <= w * h THEN e(CellAt(i, w)) ELSE Zero
        hi(i) == v(i + 8)
    IN  QAdd[Sum8(Tuple8(v)), Sum8(Tuple8(hi))]

-----------------------------------------------------------------------------
(* Final equilibration kernel: margolusBinaryWaterRedistribution.wgsl      *)

\* a 2x2 block is the 4-tuple of its cells in the order of the shader's
\* dy/dx loops: (0,0), (1,0), (0,1), (1,1) as (dx, dy)
BlockCell(x, y, i) == <<x + ((i - 1) % 2), y + ((i - 1) \div 2)>>

\* _precompute_mask: which block cells of the block anchored at (x, y) lie
\* inside the grid
_precompute_mask(x, y, sx, sy) ==
    LET m(i) == InBounds(BlockCell(x, y, i)[1], BlockCell(x, y, i)[2], sx, sy)
    IN  <<m(1), m(2), m(3), m(4)>>

\* _load_block: terrain height (channel r) of the masked block cells
_load_block(x, y, mask, terrain) ==
    LET v(i) == IF mask[i] THEN terrain[BlockCell(x, y, i)].r ELSE Zero
    IN  <<v(1), v(2), v(3), v(4)>>

\* _load_water_block: still water (channel b) of the masked block cells
_load_water_block(x, y, mask, water) ==
    LET v(i) == IF mask[i] THEN water[BlockCell(x, y, i)].b ELSE Zero
    IN  <<v(1), v(2), v(3), v(4)>>

\* the accumulation loops of the shader over the four block cells
Sum4(t) == QAdd[QAdd[QAdd[t[1], t[2]], t[3]], t[4]]
Count4(mask) == Cardinality({i \in 1 .. 4 : mask[i]})

\* min_val of an empty block keeps its initial value 1e20 (1e6 stands for it)
BigFloat == <<1000000, 1>>

\* water_needed at candidate level mid: sum over valid cells of max(0, mid - h)
WaterNeeded(terrain_block, mask, mid) ==
    LET t(i) == IF mask[i] THEN QMax[Zero, QSub[mid, terrain_block[i]]] ELSE Zero
    IN  Sum4(<<t(1), t(2), t(3), t(4)>>)

RECURSIVE BisectLoop(_, _, _, _, _)
\* an iteration that keeps the other half of the interval
BisectStepOtherHalf(terrain_block, mask, total_water, lh) ==
    LET mid == QMul[Half, QAdd[lh[1], lh[2]]]
    IN  IF QLt[WaterNeeded(terrain_block, mask, mid), total_water]
        THEN <<lh[1], mid>> ELSE <<mid, lh[2]>>

\* one iteration of the bisection loop: the new <<low, high>>
BisectStep(terrain_block, mask, total_water, lh) ==
    LET mid == QMul[Half, QAdd[lh[1], lh[2]]]
    IN  IF QLt[WaterNeeded(terrain_block, mask, mid), total_water]
        THEN <<mid, lh[2]>> ELSE <<lh[1], mid>>

\* the intervals <<low, high>> before the loop and after each of its first
\* `iters` iterations
BisectLoop(terrain_block, mask, total_water, lh0, iters) ==
    IF iters = 0 THEN <<lh0>>
    ELSE LET tr == BisectLoop(terrain_block, mask, total_water, lh0, iters - 1)
         IN  Append(tr, BisectStep(terrain_block, mask, total_water, tr[Len(tr)]))

binary_search_water_level(terrain_block, total_water, mask, num_iterations) ==
    LET n == Count4(mask)
        lo(i) == IF mask[i] THEN terrain_block[i] ELSE BigFloat
        hi(i) == IF mask[i] THEN terrain_block[i] ELSE QNeg[BigFloat]
        min_val == QMin[QMin[QMin[QMin[BigFloat, lo(1)], lo(2)], lo(3)], lo(4)]
        max_val == QMax[QMax[QMax[QMax[QNeg[BigFloat], hi(1)], hi(2)], hi(3)], hi(4)]
    IN  IF QLe[total_water, Zero] \/ n = 0 THEN min_val
        ELSE LET lh0 == <<min_val, QAdd[max_val, QDiv[total_water, QInt[n]]]>>
                 tr == BisectLoop(terrain_block, mask, total_water, lh0,
                                  num_iterations)
                 lh == tr[Len(tr)]
             IN  QMul[Half, QAdd[lh[1], lh[2]]]

\* the floor 1e-12 of the divisor in main; 1e-9 stands for it (it only has to
\* lie below every positive factor the model uses)
TinyFactor == <<1, 1000000000>>

\* an invocation that went on whatever its parity
MargolusIsAnchorAnyParity(gid, params, sx, sy) ==
    ~(gid[1] >= sx \/ gid[2] >= sy)

\* main's two early returns: an invocation goes on only when it is inside the
\* grid and its parity matches the sub-pass offset
MargolusIsAnchor(gid, params, sx, sy) ==
    /\ ~(gid[1] >= sx \/ gid[2] >= sy)
    /\ ~(((gid[1] - params.offset_x) % 2) # 0 \/ ((gid[2] - params.offset_y) % 2) # 0)

\* the cells invocation gid stores to
MargolusWrites(gid, params, sx, sy) ==
    IF ~MargolusIsAnchor(gid, params, sx, sy) THEN {}
    ELSE LET mask == _precompute_mask(gid[1], gid[2], sx, sy)
         IN  {BlockCell(gid[1], gid[2], i) : i \in {j \in 1 .. 4 : mask[j]}}

\* the water level invocation gid computes for its block
MargolusLevel(gid, params, sx, sy, whf, terrain, water) ==
    LET bx == gid[1]
        by == gid[2]
        mask == _precompute_mask(bx, by, sx, sy)
        terrain_block == _load_block(bx, by, mask, terrain)
        water_block == _load_water_block(bx, by, mask, water)
        w(i) == IF mask[i] THEN QMul[water_block[i], whf] ELSE Zero
        total_water_height == Sum4(<<w(1), w(2), w(3), w(4)>>)
    IN  binary_search_water_level(terrain_block, total_water_height, mask,
                                  params.num_iterations)

\* eq_v: the still-water volume invocation gid computes for `cell`, one of
\* the cells it writes
MargolusEqV(gid, cell, params, sx, sy, whf, terrain, water) ==
    LET water_level == MargolusLevel(gid, params, sx, sy, whf, terrain, water)
        eq_h == QMax[Zero, QSub[water_level, terrain[cell].r]]
        f == QMax[whf, TinyFactor]
    IN  QDiv[eq_h, f]

\* a store that writes eq_v and clears the other channels (a variant for
\* testing C15, not the shader)
MargolusTexelCleared(gid, cell, params, sx, sy, whf, terrain, water) ==
    [r |-> Zero, g |-> Zero, a |-> Zero,
     b |-> StoreF32[MargolusEqV(gid, cell, params, sx, sy, whf, terrain, water)]]
\* the texel invocation gid stores to `cell`: R, G, A preserved, B = eq_v
MargolusTexel(gid, cell, params, sx, sy, whf, terrain, water) ==
    LET eq_v == MargolusEqV(gid, cell, params, sx, sy, whf, terrain, water)
        src == water[cell]
    IN  [r |-> src.r, g |-> src.g, b |-> StoreF32[eq_v], a |-> src.a]

\* simulation.js: the Margolus dispatch size, in invocations per axis
MARGOLUS_WG == 8
numBlocks(size) == CeilDiv(size, 2) + 1
wgMargolus(size) == CeilDiv(numBlocks(size), MARGOLUS_WG)
MargolusDispatched(sx, sy) ==
    (0 .. wgMargolus(sx) * MARGOLUS_WG - 1) \X (0 .. wgMargolus(sy) * MARGOLUS_WG - 1)

\* the anchors processed by one sub-pass
ProcessedAnchors(params, sx, sy) ==
    {gid \in MargolusDispatched(sx, sy) : MargolusIsAnchor(gid, params, sx, sy)}

\* one dispatch: every cell some processed invocation writes takes the texel
\* that invocation stores; every other cell of the output texture keeps its
\* content
MargolusPass(params, sx, sy, whf, terrain, waterIn, waterOut) ==
    LET gids == ProcessedAnchors(params, sx, sy)
    IN  [c \in Cells(sx, sy) |->
            IF \E wr \in gids : c \in MargolusWrites(wr, params, sx, sy)
            THEN MargolusTexel(
                     CHOOSE wr \in gids : c \in MargolusWrites(wr, params, sx, sy),
                     c, params, sx, sy, whf, terrain, waterIn)
            ELSE waterOut[c]]

-----------------------------------------------------------------------------
(* Distance field kernel: JFAwithAtomicMax.wgsl                            *)

\* the 1e9 distance of a cell without seed (the noise kernel writes it); 1e5
\* stands for it: like 1e9 it exceeds every distance of a grid and saturates
\* the Q16.16 quantisation
NoSeedDist == <<100000, 1>>
SentinelTexel == [r |-> <<-1, 1>>, g |-> <<-1, 1>>, b |-> Zero, a |-> NoSeedDist]
SeedTexel(x, y, height) == [r |-> <<x, 1>>, g |-> <<y, 1>>, b |-> height, a |-> Zero]

\* integer square root, bit by bit: r with bit b added if the square still fits
\* (candidates stay below 2^15.5 so that the square is a 32-bit integer)
IsqrtStep[n \in Nat, b \in Int, r \in Nat] ==
    IF b >= 0 /\ r + Pow2[b] <= 46340 /\ (r + Pow2[b]) * (r + Pow2[b]) <= n
    THEN r + Pow2[b] ELSE r
\* bits b, b-1, ..., 0, four per level
IsqrtBits[n \in Nat, b \in Int, r \in Nat] ==
    IF b < 0 THEN r
    ELSE IsqrtBits[n, b - 4,
            IsqrtStep[n, b - 3, IsqrtStep[n, b - 2, IsqrtStep[n, b - 1,
                IsqrtStep[n, b, r]]]]]
\* sqrt of an integer, kept to FracBits fractional bits
SqrtF32[n \in Nat] == Q[IsqrtBits[n * Pow2[2 * FracBits], 15, 0], Pow2[FracBits]]

\* WGSL distance(seedPos, pixelPos) for a seed at integer coordinates
distance(seedPos, pixelPos) ==
    SqrtF32[(seedPos[1] - pixelPos[1]) * (seedPos[1] - pixelPos[1])
            + (seedPos[2] - pixelPos[2]) * (seedPos[2] - pixelPos[2])]

neighbors_offset(step) ==
    <<(<<step, step>>), (<<step, -step>>), (<<-step, step>>), (<<-step, -step>>),
      (<<step, 0>>), (<<-step, 0>>), (<<0, step>>), (<<0, -step>>)>>

\* an iteration that adopts the seed of any valid neighbour, nearer or not
JfaVisitAdoptsAny(best, x, y, coord, w, h, inputTex) ==
    IF ~InBounds(coord[1], coord[2], w, h) THEN best
    ELSE LET neighbor == inputTex[coord]
         IN  IF QLt[neighbor.r, Zero] THEN best
             ELSE [r |-> neighbor.r, g |-> neighbor.g, b |-> neighbor.b,
                   a |-> distance(<<neighbor.r[1], neighbor.g[1]>>, <<x, y>>)]

\* one iteration of the neighbour loop: the new <<bestSeed, bestDist>> texel
JfaVisit(best, x, y, coord, w, h, inputTex) ==
    IF ~InBounds(coord[1], coord[2], w, h) THEN best
    ELSE LET neighbor == inputTex[coord]
         IN  IF QLt[neighbor.r, Zero] THEN best
             ELSE LET dist == distance(<<neighbor.r[1], neighbor.g[1]>>, <<x, y>>)
                  IN  IF QLt[dist, best.a]
                      THEN [r |-> neighbor.r, g |-> neighbor.g, b |-> neighbor.b,
                            a |-> dist]
                      ELSE best

\* the <<bestSeed, bestDist>> texels after each of the 8 iterations of the loop
JfaLoop(x, y, step, w, h, inputTex) ==
    LET off == neighbors_offset(step)
        at(i) == <<x + off[i][1], y + off[i][2]>>
        b0 == inputTex[<<x, y>>]
        b1 == JfaVisit(b0, x, y, at(1), w, h, inputTex)
        b2 == JfaVisit(b1, x, y, at(2), w, h, inputTex)
        b3 == JfaVisit(b2, x, y, at(3), w, h, inputTex)
        b4 == JfaVisit(b3, x, y, at(4), w, h, inputTex)
        b5 == JfaVisit(b4, x, y, at(5), w, h, inputTex)
        b6 == JfaVisit(b5, x, y, at(6), w, h, inputTex)
        b7 == JfaVisit(b6, x, y, at(7), w, h, inputTex)
        b8 == JfaVisit(b7, x, y, at(8), w, h, inputTex)
    IN  <<b1, b2, b3, b4, b5, b6, b7, b8>>

\* the texel invocation (x, y) stores: vec4(bestSeed, bestDist)
JfaTexel(x, y, step, w, h, inputTex) == JfaLoop(x, y, step, w, h, inputTex)[8]

\* simulation.js: workgroups of 16 x 16 invocations, ceil(size / 16) per axis
WORKGROUP_SIZE == 16
wg(size) == CeilDiv(size, WORKGROUP_SIZE)
Dispatched(sx, sy) ==
    (0 .. wg(sx) * WORKGROUP_SIZE - 1) \X (0 .. wg(sy) * WORKGROUP_SIZE - 1)

\* one dispatch: every dispatched in-grid invocation stores its texel
JfaPass(step, w, h, inputTex, outputTex) ==
    [c \in Cells(w, h) |->
        IF c \in Dispatched(w, h)
        THEN JfaTexel(c[1], c[2], step, w, h, inputTex)
        ELSE outputTex[c]]

\* u32(max(myMax, 0.0) * Q16_16_SCALE) as the two 16-bit halves <<high, low>>
\* of the u32; the conversion saturates at 0xFFFFFFFF
U16 == 65536
Quantize(myMax) ==
    LET v == QMax[myMax, Zero]
        ip == v[1] \div v[2]
        g == GCD[U16, v[2]]
    IN  IF ip >= U16 THEN <<U16 - 1, U16 - 1>>
        ELSE <<ip, ((v[1] % v[2]) * (U16 \div g)) \div (v[2] \div g)>>
U32Max(a, b) == IF a[1] < b[1] \/ (a[1] = b[1] /\ a[2] < b[2]) THEN b ELSE a

\* myMax of local invocation li of workgroup wgid: bestDist inside the grid,
\* -1 outside
MyMax(wgid, li, w, h, outputTex) ==
    LET x == wgid[1] * WORKGROUP_SIZE + (li % WORKGROUP_SIZE)
        y == wgid[2] * WORKGROUP_SIZE + (li \div WORKGROUP_SIZE)
    IN  IF x < w /\ y < h THEN outputTex[<<x, y>>].a ELSE <<-1, 1>>

\* a reduction loop without its body: every slot keeps its own value
ReduceStepDropped(localMax, stride) == localMax

\* one iteration of the reduction loop over the shared array (slot li is
\* element li + 1 of the sequence): the slots below stride take the max with
\* the slot stride above, the others keep their value
ReduceStep(localMax, stride) ==
    [i \in 1 .. stride |-> U32Max(localMax[i], localMax[i + stride])]
        \o SubSeq(localMax, stride + 1, 256)

\* the shared array at the first barrier and after each iteration of the
\* reduction loop (strides 128, 64, ..., 1)
LocalMaxTrace(wgid, w, h, outputTex) ==
    LET a0 == [i \in 1 .. 256 |-> Quantize(MyMax(wgid, i - 1, w, h, outputTex))]
        a1 == ReduceStep(a0, 128)
        a2 == ReduceStep(a1, 64)
        a3 == ReduceStep(a2, 32)
        a4 == ReduceStep(a3, 16)
        a5 == ReduceStep(a4, 8)
        a6 == ReduceStep(a5, 4)
        a7 == ReduceStep(a6, 2)
        a8 == ReduceStep(a7, 1)
    IN  <<a0, a1, a2, a3, a4, a5, a6, a7, a8>>

\* localMax[li] after k iterations of the reduction loop
LocalMaxAfter(k, li, wgid, w, h, outputTex) ==
    LocalMaxTrace(wgid, w, h, outputTex)[k + 1][li + 1]

\* the barrier intervals of the reduction: interval 0 is the store of the
\* quantized value, interval k in 1 .. 8 the loop iteration with stride
\* 256 >> k, interval 9 the atomicMax after the loop
Intervals == 0 .. 9
StrideOf(k) == Pow2[8 - k]
\* a loop body without its guard: every invocation writes its slot (a variant
\* for testing C23)
SlotWritesUnguarded(li, k) == IF k <= 8 THEN {li} ELSE {}
\* the slots of localMax that invocation li writes / reads in interval k
SlotWrites(li, k) ==
    IF k = 0 THEN {li}
    ELSE IF k <= 8 /\ li < StrideOf(k) THEN {li}
    ELSE {}
SlotReads(li, k) ==
    IF k = 0 THEN {}
    ELSE IF k <= 8 THEN (IF li < StrideOf(k) THEN {li, li + StrideOf(k)} ELSE {})
    ELSE IF li = 0 THEN {0}
    ELSE {}

RECURSIVE AtomicMaxAll(_, _, _, _, _)
\* maxBuf after thread 0 of each workgroup in wgs did its atomicMax
AtomicMaxAll(maxBuf, wgs, w, h, outputTex) ==
    IF wgs = {} THEN maxBuf
    ELSE LET wgid == CHOOSE g \in wgs : TRUE
         IN  AtomicMaxAll(U32Max(maxBuf, LocalMaxAfter(8, 0, wgid, w, h, outputTex)),
                          wgs \ {wgid}, w, h, outputTex)

Workgroups(w, h) == (0 .. wg(w) - 1) \X (0 .. wg(h) - 1)

-----------------------------------------------------------------------------
(* Noise and blend kernels                                                 *)

\* simplifiedFbm: the fractal noise height of a cell, in [0, 1].  It is a
\* fixed function of the seed and of the cell; its values are tabulated
\* in quarters, one row per seed.
NoiseTable ==
    << <<2, 0, 4, 1, 3>>,
       <<0, 4, 0, 3, 1>>,
       <<4, 1, 3, 0, 2>>,
       <<3, 3, 1, 4, 0>> >>
simplifiedFbm(seed, x, y) ==
    Q[NoiseTable[(seed % Len(NoiseTable)) + 1][((x + 2 * y) % 5) + 1], 4]

\* main of the noise kernel: the two texels stored for cell <<x, y>>
NoiseTexel(seed, x, y) ==
    [r |-> StoreF32[simplifiedFbm(seed, x, y)], g |-> Zero, b |-> Zero, a |-> One]
JfaSeedTexel(seed, threshold, x, y) ==
    LET height == simplifiedFbm(seed, x, y)
    IN  IF QLt[threshold, height] THEN SeedTexel(x, y, StoreF32[height])
        ELSE SentinelTexel

\* f32(maxBuf.value) / Q16_16_SCALE, kept to FracBits fractional bits
MaxDist(maxBuf) ==
    Q[maxBuf[1] * Pow2[FracBits] + (maxBuf[2] \div Pow2[16 - FracBits]), Pow2[FracBits]]

\* main of the blend kernel: the height stored for one cell
\* a blend of the height as it is, not inverted (a variant for testing C27)
BlendHeightNotInverted(height_norm, dist_val, maxBuf, heightmap_weight, distance_weight) ==
    QMix[height_norm,
         IF QLe[MaxDist(maxBuf), Zero] THEN Zero
         ELSE QClamp[QDiv[dist_val, MaxDist(maxBuf)], Zero, One],
         QClamp[QDiv[distance_weight, QAdd[heightmap_weight, distance_weight]],
                Zero, One]]
BlendHeight(height_norm, dist_val, maxBuf, heightmap_weight, distance_weight) ==
    LET max_dist == MaxDist(maxBuf)
        dist_norm == IF QLe[max_dist, Zero] THEN Zero
                     ELSE QClamp[QDiv[dist_val, max_dist], Zero, One]
        blend_factor == QClamp[QDiv[distance_weight,
                                    QAdd[heightmap_weight, distance_weight]],
                               Zero, One]
        inverted_height == QSub[One, height_norm]
    IN  QMix[inverted_height, dist_norm, blend_factor]

BlendPass(w, h, heightmapTex, distanceTex, maxBuf, hw, dw, outputTex) ==
    [c \in Cells(w, h) |->
        IF c \in Dispatched(w, h)
        THEN LET final_height ==
                     StoreF32[BlendHeight(heightmapTex[c].r, distanceTex[c].a,
                                          maxBuf, hw, dw)]
             IN  [r |-> final_height, g |-> final_height, b |-> final_height,
                  a |-> One]
        ELSE outputTex[c]]

-----------------------------------------------------------------------------
(* Hydraulic erosion kernel (FD8 flow routing, ping to pong)               *)

MAX_WATER_PER_CELL == One
\* 1 / sqrt(2), kept to FracBits-like 8 fractional bits
INV_SQRT2 == <<181, 256>>
\* clockwise from north-west; index i here is index i - 1 of the shader
NEIGHBOR_OFFSETS ==
    <<(<<-1, 1>>), (<<0, 1>>), (<<1, 1>>), (<<1, 0>>),
      (<<1, -1>>), (<<0, -1>>), (<<-1, -1>>), (<<-1, 0>>)>>
NEIGHBOR_INV_DISTANCES ==
    <<INV_SQRT2, One, INV_SQRT2, One, INV_SQRT2, One, INV_SQRT2, One>>
NeighborPos(pos, i) ==
    <<pos[1] + NEIGHBOR_OFFSETS[i][1], pos[2] + NEIGHBOR_OFFSETS[i][2]>>

is_out_of_bounds(pos, dim_x, dim_y) ==
    pos[1] < 0 \/ pos[1] >= dim_x \/ pos[2] < 0 \/ pos[2] >= dim_y

\* params: the ErosionParams block; tin, win: the bound input textures
get_terrain_height(pos, params, tin) ==
    IF is_out_of_bounds(pos, params.size_x, params.size_y) THEN <<9999, 1>>
    ELSE tin[pos].r

get_water_data(pos, params, win) ==
    IF is_out_of_bounds(pos, params.size_x, params.size_y) THEN ZeroTexel
    ELSE win[pos]

get_effective_height(pos, params, tin, win) ==
    IF is_out_of_bounds(pos, params.size_x, params.size_y) THEN <<9999, 1>>
    ELSE LET t == get_terrain_height(pos, params, tin)
             w == get_water_data(pos, params, win)
             total_water == QAdd[w.b, QMul[params.flow_depth_weight, w.r]]
         IN  QAdd[t, QMul[total_water, params.water_height_factor]]

\* a neighbour's effective height, or c for a neighbour outside the grid
EffectiveOr(npos, c, params, tin, win) ==
    IF ~is_out_of_bounds(npos, params.size_x, params.size_y)
    THEN get_effective_height(npos, params, tin, win)
    ELSE c
Laplacian4(c, px, py, params, tin, win) ==
    QSub[QAdd[QAdd[EffectiveOr(<<px, py + 1>>, c, params, tin, win),
                   EffectiveOr(<<px + 1, py>>, c, params, tin, win)],
              QAdd[EffectiveOr(<<px, py - 1>>, c, params, tin, win),
                   EffectiveOr(<<px - 1, py>>, c, params, tin, win)]],
         QMul[QInt[4], c]]
laplacian_effective_height(p, params, tin, win) ==
    Laplacian4(get_effective_height(p, params, tin, win), p[1], p[2],
               params, tin, win)

\* the scaled curvature without its clamp
ValleynessUnclamped(lap) == QMul[QNeg[lap], QInt[50]]
\* valleyness = clamp(-lap * 50, 0, 1)
Valleyness(lap) == QClamp[QMul[QNeg[lap], QInt[50]], Zero, One]
\* p = mix(0.8, 2.5, valleyness)
FlowExponent(valleyness) == QMix[<<4, 5>>, <<5, 2>>, valleyness]

\* pow(x, p) for x > 0: the f32 result is an approximation.  Here base and
\* exponent are taken at PowBits fractional bits, the power is interpolated
\* linearly in p between the two neighbouring integer powers of x, and the
\* result keeps PowBits fractional bits; the power of a positive base is
\* positive.
PowBits == 4
PowUnit == <<1, Pow2[PowBits]>>
\* xq to the power n + f, for an integer n in 0 .. 3 and 0 <= f < 1
PowInterpolate(xq, n, f) ==
    QMul[IF n = 0 THEN One
         ELSE IF n = 1 THEN xq
         ELSE IF n = 2 THEN QMul[xq, xq]
         ELSE QMul[xq, QMul[xq, xq]],
         QAdd[One, QMul[f, QSub[xq, One]]]]
PowSplit(xq, pq, n) ==
    QMax[FloorTo[PowInterpolate(xq, n, QSub[pq, QInt[n]]), PowBits], PowUnit]
PowRounded(xq, pq) == PowSplit(xq, pq, pq[1] \div pq[2])
pow(x, p) == PowRounded(QMax[FloorTo[x, PowBits], PowUnit], FloorTo[p, PowBits])

\* 1e-8, as the nearest power of two
SlopeFloor == <<1, 67108864>>

\* weights[i] before normalisation, from the height difference to neighbour i
FlowWeightOf(height_diff, i, p) ==
    IF QLe[height_diff, Zero] THEN Zero
    ELSE pow(QMax[QMul[height_diff, NEIGHBOR_INV_DISTANCES[i]], SlopeFloor], p)
FlowWeight(pos, i, p, current_height, params, tin, win) ==
    IF is_out_of_bounds(NeighborPos(pos, i), params.size_x, params.size_y)
    THEN Zero
    ELSE FlowWeightOf(QSub[current_height,
                           get_effective_height(NeighborPos(pos, i), params, tin, win)],
                      i, p)
FlowWeights(pos, p, current_height, params, tin, win) ==
    LET w(i) == FlowWeight(pos, i, p, current_height, params, tin, win)
    IN  Tuple8(w)
\* weights[i] / total_weight if total_weight > 0, else all zero
NormalizeBy(weights, total_weight) ==
    LET normalized(i) == IF QLt[Zero, total_weight]
                         THEN QDiv[weights[i], total_weight] ELSE Zero
    IN  Tuple8(normalized)
\* the weights left as they are, without the division by their sum
NormalizeSkipped(weights) == weights
Normalize(weights) == NormalizeBy(weights, Sum8(weights))

compute_normalized_flow_weights(pos, params, tin, win) ==
    Normalize(FlowWeights(pos,
        FlowExponent(Valleyness(laplacian_effective_height(pos, params, tin, win))),
        get_effective_height(pos, params, tin, win), params, tin, win))

\* a faulty gather that takes the neighbour's water and leaves its sediment
\* behind (a variant for testing C5, not the shader)
IncomingViaWaterOnly(neighbor_water, flow_fraction) ==
    IF QLt[Zero, flow_fraction]
    THEN <<QMul[neighbor_water.r, flow_fraction], Zero>>
    ELSE <<Zero, Zero>>
\* the pair <<water, sediment>> gathered from neighbour i
IncomingVia(neighbor_water, flow_fraction) ==
    IF QLt[Zero, flow_fraction]
    THEN <<QMul[neighbor_water.r, flow_fraction],
           QMul[neighbor_water.g, flow_fraction]>>
    ELSE <<Zero, Zero>>
\* the weights every in-grid cell computes for itself, by cell number: the
\* value of compute_normalized_flow_weights depends on the input textures
\* only, so a neighbour's call for a cell returns that cell's entry
FlowWeightTable(params, tin, win) ==
    LET weights == [i \in 1 .. params.size_x * params.size_y |->
                       compute_normalized_flow_weights(CellAt(i, params.size_x),
                                                       params, tin, win)]
    IN  SubSeq(weights, 1, params.size_x * params.size_y)
IncomingFromNeighbor(pos, i, neighbor_pos, neighbor_water, params, tin, win, weights) ==
    IF \/ QLe[neighbor_water.r, Zero]
       \/ QLe[get_effective_height(neighbor_pos, params, tin, win),
              get_effective_height(pos, params, tin, win)]
    THEN <<Zero, Zero>>
    ELSE IncomingVia(neighbor_water,
             weights[CellIndex(neighbor_pos, params.size_x)]
                 [((i - 1 + 4) % 8) + 1])
IncomingFrom(pos, i, params, tin, win, weights) ==
    IF is_out_of_bounds(NeighborPos(pos, i), params.size_x, params.size_y)
    THEN <<Zero, Zero>>
    ELSE IncomingFromNeighbor(pos, i, NeighborPos(pos, i),
                              get_water_data(NeighborPos(pos, i), params, win),
                              params, tin, win, weights)

\* componentwise sum of 8 pairs
SumPairs(t) ==
    LET first(i) == t[i][1]
        second(i) == t[i][2]
    IN  <<Sum8(Tuple8(first)), Sum8(Tuple8(second))>>
accumulate_water_and_sediment(pos, params, tin, win, weights) ==
    LET inc(i) == IncomingFrom(pos, i, params, tin, win, weights)
    IN  SumPairs(Tuple8(inc))

\* u32 values are pairs <<high 16 bits, low 16 bits>>
U32(n) == <<n \div U16, n % U16>>
U32Add(a, b) ==
    <<(a[1] + b[1] + ((a[2] + b[2]) \div U16)) % U16, (a[2] + b[2]) % U16>>
\* a * 1664525 mod 2^32; 1664525 = 25 * 65536 + 26125
U32MulLcg(a) ==
    <<(((a[1] * 26125) % U16) + a[2] * 25 + ((a[2] * 26125) \div U16)) % U16,
      (a[2] * 26125) % U16>>
XorBit(a, b, i) == (((a \div Pow2[i]) + (b \div Pow2[i])) % 2) * Pow2[i]
Xor4(a, b, i) ==
    (XorBit(a, b, i) + XorBit(a, b, i + 1)) + (XorBit(a, b, i + 2) + XorBit(a, b, i + 3))
Xor16(a, b) == (Xor4(a, b, 0) + Xor4(a, b, 4)) + (Xor4(a, b, 8) + Xor4(a, b, 12))
\* v ^ (v >> 16)
XorShift16(v) == <<v[1], Xor16(v[2], v[1])>>

\* pcg2d(p).x for p = (px, py): v = v * c + inc; v.x += v.y * c;
\* v.y += v.x * c; v ^= v >> 16; v.x += v.y * c; v.y += v.x * c; v ^= v >> 16
PcgMix(x2, y2) == XorShift16(U32Add(x2, U32MulLcg(y2)))
PcgSecond(x1, y0) ==
    PcgMix(XorShift16(x1), XorShift16(U32Add(y0, U32MulLcg(x1))))
PcgFirst(x0, y0) == PcgSecond(U32Add(x0, U32MulLcg(y0)), y0)
pcg2d(px, py) ==
    PcgFirst(U32Add(U32MulLcg(px), U32(1013904223)),
             U32Add(U32MulLcg(py), U32(1013904223)))

\* f32(hash) / f32(0xFFFFFFFF): the top 24 bits of the hash over 2^24
hash_to_float(hash) == Q[hash[1] * 256 + (hash[2] \div 256), 16777216]

\* a spawn test without the check of the iteration against spawn_cycles (a
\* variant for testing C20, not the shader)
SpawnInEveryCycle(pos, params) ==
    QLt[hash_to_float(pcg2d(U32Add(U32(pos[1]), U32(params.random_seed)),
                            U32Add(U32(pos[2]), U32(params.iteration)))),
        params.spawn_density]
should_spawn_droplet(pos, params) ==
    IF params.iteration >= params.spawn_cycles THEN FALSE
    ELSE QLt[hash_to_float(pcg2d(U32Add(U32(pos[1]), U32(params.random_seed)),
                                 U32Add(U32(pos[2]), U32(params.iteration)))),
             params.spawn_density]

\* the volume a droplet adds to the flowing water: MAX_WATER_PER_CELL * 0.5
DropletVolume == QMul[MAX_WATER_PER_CELL, Half]

\* remobilization from still to flowing: <<water, sediment>>
RemobilizeBy(water_data, actual_remobilize) ==
    <<actual_remobilize,
      QMul[water_data.a, QDiv[actual_remobilize, water_data.b]]>>
Remobilize(water_data, params, total_flow_weight) ==
    IF QLt[Zero, water_data.b] /\ QLt[Zero, total_flow_weight]
    THEN RemobilizeBy(water_data,
             QMin[QMul[water_data.b, params.still_water_relaxation],
                  MAX_WATER_PER_CELL])
    ELSE <<Zero, Zero>>

\* pit handling: <<amount_to_deposit, still sediment after the pit branch>>
IsPit(water_data, total_flow_weight) ==
    QLe[total_flow_weight, Zero] /\ QLt[Zero, water_data.r]
PitShares(water_data, amount_to_deposit, dep_flow) ==
    <<amount_to_deposit,
      QAdd[QMax[Zero, QSub[water_data.a, QSub[amount_to_deposit, dep_flow]]],
           QMax[Zero, QSub[water_data.g, dep_flow]]]>>
PitDeposit(water_data, total_sed, amount_to_deposit) ==
    PitShares(water_data, amount_to_deposit,
              QMul[amount_to_deposit, QDiv[water_data.g, total_sed]])
PitSediment(water_data, params, total_sed) ==
    IF QLt[Zero, total_sed]
    THEN PitDeposit(water_data, total_sed, QMul[total_sed, params.deposition_rate])
    ELSE <<Zero, water_data.a>>
\* a pit branch that deposits but drops what is left of the flowing sediment
\* (a variant for testing C26)
PitHandlingDropsFlowing(water_data, params, total_flow_weight) ==
    IF IsPit(water_data, total_flow_weight) /\ QLt[Zero, QAdd[water_data.g, water_data.a]]
    THEN <<QMul[QAdd[water_data.g, water_data.a], params.deposition_rate],
           QMul[water_data.a, QSub[One, params.deposition_rate]]>>
    ELSE <<Zero, water_data.a>>
PitHandling(water_data, params, total_flow_weight) ==
    IF IsPit(water_data, total_flow_weight)
    THEN PitSediment(water_data, params, QAdd[water_data.g, water_data.a])
    ELSE <<Zero, water_data.a>>

\* bed exchange; avg_slope and erosion_capacity are f32 locals that no
\* other invocation sees: they are kept as rounded f32 values
SlopeTerm(pos, i, params, tin, current_height, flow_weight) ==
    IF QLt[Zero, flow_weight]
    THEN QMul[QMax[QMul[QSub[current_height,
                             get_terrain_height(NeighborPos(pos, i), params, tin)],
                        NEIGHBOR_INV_DISTANCES[i]], Zero],
              flow_weight]
    ELSE Zero
AvgSlope(pos, params, tin, current_height, flow_weights) ==
    LET s(i) == SlopeTerm(pos, i, params, tin, current_height, flow_weights[i])
    IN  StoreF32[Sum8(Tuple8(s))]
ErosionCapacity(params, current_still_water, water_accumulator, avg_slope) ==
    StoreF32[QMul[QMul[water_accumulator, avg_slope],
         QSmoothstep[params.shear_shallow, params.shear_deep,
             QMul[QMul[QAdd[current_still_water,
                            QMul[params.flow_depth_weight, water_accumulator]],
                       params.water_height_factor],
                  avg_slope]]]]
BedExchange(c, total_flow_weight, water_accumulator, sediment_gathered) ==
    IF QLt[Zero, total_flow_weight] /\ QLt[Zero, water_accumulator]
    THEN QMul[c.params.deposition_rate,
              QSub[ErosionCapacity(c.params, c.water_data.b, water_accumulator,
                       AvgSlope(c.pos, c.params, c.tin, c.terrain_data.r,
                                c.flow_weights)),
                   sediment_gathered]]
    ELSE Zero

\* the cap on flowing water: <<excess_water, sediment_to_still>>
CapSplit(sediment_accumulator, water_accumulator, excess_water) ==
    <<excess_water,
      QMul[sediment_accumulator, QDiv[excess_water, water_accumulator]]>>
Cap(water_accumulator, sediment_accumulator) ==
    IF QLt[MAX_WATER_PER_CELL, water_accumulator]
    THEN CapSplit(sediment_accumulator, water_accumulator,
                  QSub[water_accumulator, MAX_WATER_PER_CELL])
    ELSE <<Zero, Zero>>

\* main() of one in-grid invocation: the values it stores and, for the
\* properties, the quantities it computes on the way
HydraulicStores(c, total_flow_weight, remobilized, pit, water_accumulator, exchange, capped) ==
    [ total_flow_weight |-> total_flow_weight,
      pit |-> IsPit(c.water_data, total_flow_weight),
      inflow |-> c.accumulation,
      exchange |-> exchange,
      spawned |-> c.spawned,
      evaporated |->
          QAdd[QMul[c.accumulation[1], c.params.evap_rate],
               IF IsPit(c.water_data, total_flow_weight)
               THEN QMul[c.water_data.r, c.params.evap_rate] ELSE Zero],
      next_height |-> QSub[QAdd[c.terrain_data.r, pit[1]], exchange],
      next_flowing_water |->
          QAdd[c.spawned, QSub[water_accumulator, capped[1]]],
      next_flowing_sediment |->
          QSub[QAdd[QAdd[c.accumulation[2], remobilized[2]], exchange], capped[2]],
      next_still_water |->
          QAdd[QAdd[QSub[c.water_data.b, remobilized[1]],
                    IF IsPit(c.water_data, total_flow_weight)
                    THEN QMul[c.water_data.r, QSub[One, c.params.evap_rate]]
                    ELSE Zero],
               capped[1]],
      next_still_sediment |-> QAdd[QSub[pit[2], remobilized[2]], capped[2]] ]
HydraulicCap(c, total_flow_weight, remobilized, water_accumulator, sediment_gathered, exchange) ==
    HydraulicStores(c, total_flow_weight, remobilized,
        PitHandling(c.water_data, c.params, total_flow_weight),
        water_accumulator, exchange,
        Cap(water_accumulator, QAdd[sediment_gathered, exchange]))
HydraulicExchange(c, total_flow_weight, remobilized, water_accumulator, sediment_gathered) ==
    HydraulicCap(c, total_flow_weight, remobilized, water_accumulator,
        sediment_gathered,
        BedExchange(c, total_flow_weight, water_accumulator, sediment_gathered))
HydraulicGather(c, total_flow_weight, remobilized) ==
    HydraulicExchange(c, total_flow_weight, remobilized,
        QAdd[QMul[c.accumulation[1], QSub[One, c.params.evap_rate]], remobilized[1]],
        QAdd[c.accumulation[2], remobilized[2]])
HydraulicRoute(c, total_flow_weight) ==
    HydraulicGather(c, total_flow_weight,
                    Remobilize(c.water_data, c.params, total_flow_weight))
HydraulicMain(c) == HydraulicRoute(c, Sum8(c.flow_weights))
HydraulicCell(pos, params, tin, win, weights) ==
    HydraulicMain([ pos |-> pos, params |-> params, tin |-> tin,
                    terrain_data |-> tin[pos], water_data |-> win[pos],
                    flow_weights |-> weights[CellIndex(pos, params.size_x)],
                    accumulation |->
                        accumulate_water_and_sediment(pos, params, tin, win,
                                                      weights),
                    spawned |-> IF should_spawn_droplet(pos, params)
                                THEN DropletVolume ELSE Zero ])

\* what invocation c leaves behind: its two texels and, for the water
\* balance, the droplet volume it added and the volume it evaporated
HydraulicTexels(terrain_data, o) ==
    [ terrain |-> [terrain_data EXCEPT !.r = StoreF32[o.next_height]],
      water |-> [r |-> StoreF32[o.next_flowing_water],
                 g |-> StoreF32[o.next_flowing_sediment],
                 b |-> StoreF32[o.next_still_water],
                 a |-> StoreF32[o.next_still_sediment]],
      spawned |-> o.spawned,
      evaporated |-> o.evaporated ]
HydraulicInvocation(c, params, tin, win, weights) ==
    HydraulicTexels(tin[c], HydraulicCell(c, params, tin, win, weights))

\* one dispatch: every dispatched in-grid invocation stores its two texels;
\* element i of the result belongs to cell CellAt(i, size_x)
HydraulicDispatch(params, tin, win, weights) ==
    LET stores == [i \in DOMAIN weights |->
                      HydraulicInvocation(CellAt(i, params.size_x), params, tin,
                                          win, weights)]
    IN  IF weights = <<>> THEN <<>> ELSE SubSeq(stores, 1, Len(weights))
HydraulicPass(params, tin, win) ==
    HydraulicDispatch(params, tin, win, FlowWeightTable(params, tin, win))

-----------------------------------------------------------------------------
(* Still-water redistribution kernel                                       *)

\* 1e-5, as the nearest power of two
StillSlopeEps == <<1, 131072>>

StillEffectiveHeight(pos, params, ttex, win) ==
    QAdd[ttex[pos].r, QMul[win[pos].b, params.water_height_factor]]

\* weights[i] before normalisation, from the height difference to neighbour i
StillWeightOf(height_diff, i) ==
    IF QLe[height_diff, StillSlopeEps] THEN Zero
    ELSE QMul[height_diff, NEIGHBOR_INV_DISTANCES[i]]
StillWeight(pos, i, effective_height, params, ttex, win) ==
    IF is_out_of_bounds(NeighborPos(pos, i), params.size_x, params.size_y)
    THEN Zero
    ELSE StillWeightOf(QSub[effective_height,
                            StillEffectiveHeight(NeighborPos(pos, i), params,
                                                 ttex, win)], i)
StillWeights(pos, effective_height, params, ttex, win) ==
    LET w(i) == StillWeight(pos, i, effective_height, params, ttex, win)
    IN  Tuple8(w)
compute_normalized_still_water_weights(pos, params, ttex, win) ==
    Normalize(StillWeights(pos, StillEffectiveHeight(pos, params, ttex, win),
                           params, ttex, win))

\* the pair <<water, sediment>> gathered from neighbour i
StillIncomingWater(incoming_water, neighbor_water) ==
    <<incoming_water,
      QMul[incoming_water, QDiv[neighbor_water.a, neighbor_water.b]]>>
StillIncomingVia(neighbor_water, flow_fraction, params) ==
    IF QLt[Zero, flow_fraction]
    THEN StillIncomingWater(
             QMin[QMul[neighbor_water.b, flow_fraction],
                  QMul[QMul[params.still_water_relaxation, neighbor_water.b],
                       flow_fraction]],
             neighbor_water)
    ELSE <<Zero, Zero>>
StillIncomingFromNeighbor(pos, i, neighbor_pos, neighbor_water, params, ttex, win) ==
    IF \/ QLe[neighbor_water.b, Zero]
       \/ QLe[StillEffectiveHeight(neighbor_pos, params, ttex, win),
              StillEffectiveHeight(pos, params, ttex, win)]
    THEN <<Zero, Zero>>
    ELSE StillIncomingVia(neighbor_water,
             compute_normalized_still_water_weights(neighbor_pos, params, ttex, win)
                 [((i - 1 + 4) % 8) + 1],
             params)
StillIncomingFrom(pos, i, params, ttex, win) ==
    IF is_out_of_bounds(NeighborPos(pos, i), params.size_x, params.size_y)
    THEN <<Zero, Zero>>
    ELSE StillIncomingFromNeighbor(pos, i, NeighborPos(pos, i),
                                   win[NeighborPos(pos, i)], params, ttex, win)

accumulate_still_water_and_sediment(pos, params, ttex, win) ==
    LET inc(i) == StillIncomingFrom(pos, i, params, ttex, win)
    IN  SumPairs(Tuple8(inc))

\* main for the invocation at pos: the exact values it computes
StillOutflowOf(water_data, potential_water_outflow) ==
    <<potential_water_outflow,
      QMul[potential_water_outflow, QDiv[water_data.a, water_data.b]]>>
StillOutflow(water_data, params, total_outflow_weight) ==
    IF QLt[Zero, total_outflow_weight] /\ QLt[Zero, water_data.b]
    THEN StillOutflowOf(water_data,
             QMin[water_data.b,
                  QMul[QMul[params.still_water_relaxation, water_data.b],
                       total_outflow_weight]])
    ELSE <<Zero, Zero>>
\* stores that move the flowing water into the still water (a variant for
\* testing C16, not the shader)
StillWaterStoresSettling(water_data, total_outflow_weight, outflow, accumulation) ==
    [ flowing_water |-> Zero,
      flowing_sediment |-> Zero,
      next_still_water |-> QAdd[QAdd[water_data.b, water_data.r],
                                QSub[accumulation[1], outflow[1]]],
      next_still_sediment |-> QAdd[QAdd[water_data.a, water_data.g],
                                   QSub[accumulation[2], outflow[2]]],
      outflow |-> outflow[1],
      total_outflow_weight |-> total_outflow_weight ]
StillWaterStores(water_data, total_outflow_weight, outflow, accumulation) ==
    [ flowing_water |-> water_data.r,
      flowing_sediment |-> water_data.g,
      next_still_water |-> QAdd[water_data.b, QSub[accumulation[1], outflow[1]]],
      next_still_sediment |-> QAdd[water_data.a, QSub[accumulation[2], outflow[2]]],
      outflow |-> outflow[1],
      total_outflow_weight |-> total_outflow_weight ]
StillWaterFlow(water_data, params, total_outflow_weight, accumulation) ==
    StillWaterStores(water_data, total_outflow_weight,
                     StillOutflow(water_data, params, total_outflow_weight),
                     accumulation)
StillWaterCell(pos, params, ttex, win) ==
    StillWaterFlow(win[pos], params,
        Sum8(compute_normalized_still_water_weights(pos, params, ttex, win)),
        accumulate_still_water_and_sediment(pos, params, ttex, win))

StillWaterTexel(o) ==
    [r |-> o.flowing_water,
     g |-> o.flowing_sediment,
     b |-> StoreF32[o.next_still_water],
     a |-> StoreF32[o.next_still_sediment]]
\* one dispatch; element i of the result belongs to cell CellAt(i, size_x)
StillWaterPass(params, ttex, win) ==
    LET stores == [i \in 1 .. params.size_x * params.size_y |->
                      StillWaterTexel(StillWaterCell(CellAt(i, params.size_x),
                                                     params, ttex, win))]
    IN  SubSeq(stores, 1, params.size_x * params.size_y)

-----------------------------------------------------------------------------
(* Thermal erosion kernel                                                  *)

\* sqrt(2), kept to 8 fractional bits
SQRT2 == <<362, 256>>
NEIGHBOR_DIST == <<SQRT2, One, SQRT2, One, SQRT2, One, SQRT2, One>>

ClampInt(x, lo, hi) == IF x < lo THEN lo ELSE IF x > hi THEN hi ELSE x
clamp_idx(x, y, w, h) == <<ClampInt(x, 0, w - 1), ClampInt(y, 0, h - 1)>>

height_adjusted_talus_dry(h, thermalParams) ==
    IF QLe[h, thermalParams.talus_low_height] THEN thermalParams.talus_dry_low
    ELSE IF QLe[thermalParams.talus_high_height, h] THEN thermalParams.talus_dry_high
    ELSE QMix[thermalParams.talus_dry_low, thermalParams.talus_dry_high,
              QDiv[QSub[h, thermalParams.talus_low_height],
                   QSub[thermalParams.talus_high_height,
                        thermalParams.talus_low_height]]]

talus_from_water(w, terrain_height, stillParams, thermalParams) ==
    QMix[QMix[height_adjusted_talus_dry(terrain_height, thermalParams),
              thermalParams.talus_wet,
              QSmoothstep[thermalParams.flow_wet_min, thermalParams.flow_wet_max,
                          w.r]],
         thermalParams.talus_immersed,
         QSmoothstep[QMul[thermalParams.immerse_min_x,
                          stillParams.water_height_factor],
                     QMul[thermalParams.immerse_max_x,
                          stillParams.water_height_factor],
                     QMul[w.b, stillParams.water_height_factor]]]

\* the pair <<inflow, outflow>> contributed by neighbour i
ThermalExchange(slope, run, allowed, thermalParams) ==
    IF QLt[allowed, slope]
    THEN <<Zero, QMul[QMul[QSub[slope, allowed], run],
                      thermalParams.thermal_strength]>>
    ELSE IF QLt[allowed, QNeg[slope]]
    THEN <<QMul[QMul[QSub[QNeg[slope], allowed], run],
                thermalParams.thermal_strength], Zero>>
    ELSE <<Zero, Zero>>
ThermalFrom(p, i, h, allowed, dims, thermalParams, tin) ==
    ThermalExchange(
        QDiv[QSub[h, tin[clamp_idx(p[1] + NEIGHBOR_OFFSETS[i][1],
                                   p[2] + NEIGHBOR_OFFSETS[i][2],
                                   dims[1], dims[2])].r],
             NEIGHBOR_DIST[i]],
        NEIGHBOR_DIST[i], allowed, thermalParams)

\* main for the invocation at p: the exact values it computes
\* an update without the per-pass clamp (a variant for testing C25)
ThermalStoresUnclamped(h, allowed, flows, thermalParams) ==
    [ h_new |-> QSub[QAdd[h, flows[1]], flows[2]],
      allowed |-> allowed,
      inflow |-> flows[1],
      outflow |-> flows[2] ]
ThermalStores(h, allowed, flows, thermalParams) ==
    [ h_new |-> QAdd[h, QClamp[QSub[QSub[QAdd[h, flows[1]], flows[2]], h],
                               QNeg[thermalParams.max_delta_per_pass],
                               thermalParams.max_delta_per_pass]],
      allowed |-> allowed,
      inflow |-> flows[1],
      outflow |-> flows[2] ]
ThermalFlows(p, h, allowed, dims, thermalParams, tin) ==
    LET from(i) == ThermalFrom(p, i, h, allowed, dims, thermalParams, tin)
    IN  ThermalStores(h, allowed, SumPairs(Tuple8(from)), thermalParams)
ThermalCell(p, dims, stillParams, thermalParams, tin, win) ==
    ThermalFlows(p, tin[p].r,
                 talus_from_water(win[p], tin[p].r, stillParams, thermalParams),
                 dims, thermalParams, tin)

\* one dispatch; element i of the result belongs to cell CellAt(i, dims[1])
ThermalPass(dims, stillParams, thermalParams, tin, win) ==
    LET stores == [i \in 1 .. dims[1] * dims[2] |->
                      [tin[CellAt(i, dims[1])] EXCEPT
                          !.r = StoreF32[ThermalCell(CellAt(i, dims[1]), dims,
                                                     stillParams, thermalParams,
                                                     tin, win).h_new]]]
    IN  SubSeq(stores, 1, dims[1] * dims[2])

-----------------------------------------------------------------------------
(* Configuration and bind groups                                           *)

None == "none"
\* no dispatch is executing
Idle == [pending |-> {}]
\* no kernel function has been applied on its own
NoProbe == [kernel |-> "none"]
\* main.js before any run: no device yet, the run button shows its icon, the
\* canvases and the scene show what they showed before (run 0)
MaxRuns == 2
RunIds == 1 .. MaxRuns
NoRun == [phase |-> "unstarted", kind |-> "ok", step |-> 0, writes |-> 0,
          submits |-> 0, threw |-> FALSE]
HostIdle == [device |-> FALSE, loading |-> FALSE, canvases |-> 0, scene |-> 0,
             runs |-> [r \in RunIds |-> NoRun]]
Other(inst) == IF inst = "Ping" THEN "Pong" ELSE "Ping"

\* initBuffers: the defaults of the configuration.  The defaults are kept
\* where they are small rationals; the others are replaced by values of the
\* same kind that keep the numerators small (evapRate 0.001 -> 1/8, ...)
DefaultCfg ==
    [ seed |-> 0,
      jfaThreshold |-> Half,
      heightmapWeight |-> One,
      distanceWeight |-> Zero,
      iterations |-> 1,
      spawnCycles |-> 1,
      depositionRate |-> <<1, 4>>,
      evapRate |-> <<1, 8>>,
      waterHeightFactor |-> One,
      stillWaterRelaxation |-> Half,
      spawnDensity |-> One,
      randomSeed |-> 42,
      flowDepthWeight |-> <<1, 4>>,
      shearShallow |-> Zero,
      shearDeep |-> <<1, 256>>,
      talusWet |-> <<1, 64>>,
      talusImmersed |-> <<1, 128>>,
      talusLowHeight |-> <<1, 4>>,
      talusHighHeight |-> <<3, 4>>,
      talusDryLow |-> <<1, 64>>,
      talusDryHigh |-> <<1, 128>>,
      flowWetMin |-> <<1, 512>>,
      flowWetMax |-> <<1, 256>>,
      immerseMinX |-> <<1, 512>>,
      immerseMaxX |-> <<1, 256>>,
      thermalStrength |-> <<1, 8>>,
      thermalMaxDeltaPerPass |-> <<1, 16>>,
      margolusPasses |-> 1,
      margolusBinarySearchIterations |-> 8 ]

\* the erosion parameter block as the hydraulic kernel reads it
ErosionParams(iteration) ==
    [ size_x |-> sizeX, size_y |-> sizeY,
      iteration |-> iteration,
      max_iterations |-> cfg.iterations,
      spawn_cycles |-> cfg.spawnCycles,
      deposition_rate |-> cfg.depositionRate,
      evap_rate |-> cfg.evapRate,
      water_height_factor |-> cfg.waterHeightFactor,
      still_water_relaxation |-> cfg.stillWaterRelaxation,
      spawn_density |-> cfg.spawnDensity,
      random_seed |-> cfg.randomSeed,
      flow_depth_weight |-> cfg.flowDepthWeight,
      shear_shallow |-> cfg.shearShallow,
      shear_deep |-> cfg.shearDeep ]

StillWaterParams ==
    [ size_x |-> sizeX, size_y |-> sizeY,
      water_height_factor |-> cfg.waterHeightFactor,
      still_water_relaxation |-> cfg.stillWaterRelaxation ]

ThermalParams ==
    [ talus_wet |-> cfg.talusWet,
      talus_immersed |-> cfg.talusImmersed,
      talus_low_height |-> cfg.talusLowHeight,
      talus_high_height |-> cfg.talusHighHeight,
      talus_dry_low |-> cfg.talusDryLow,
      talus_dry_high |-> cfg.talusDryHigh,
      flow_wet_min |-> cfg.flowWetMin,
      flow_wet_max |-> cfg.flowWetMax,
      immerse_min_x |-> cfg.immerseMinX,
      immerse_max_x |-> cfg.immerseMaxX,
      thermal_strength |-> cfg.thermalStrength,
      max_delta_per_pass |-> cfg.thermalMaxDeltaPerPass ]

\* a faulty binding, the hydraulic pass writing the textures it reads (a
\* variant for testing C10)
erosionBindGroupInPlace ==
    [terrain_input_tex |-> "Ping", terrain_output_tex |-> "Ping",
     water_input_tex |-> "Ping", water_output_tex |-> "Ping"]
\* a faulty binding, the thermal pass writing the terrain it reads (a variant
\* for testing C18)
thermalErosionBindGroupInPlace ==
    [terrain_in |-> "Ping", water_in |-> "Ping", terrain_out |-> "Ping"]
\* initBindGroups: the texture instances bound by the erosion-loop bind groups
erosionBindGroup ==
    [terrain_input_tex |-> "Ping", terrain_output_tex |-> "Pong",
     water_input_tex |-> "Ping", water_output_tex |-> "Pong"]
stillWaterRedistributionBindGroup ==
    [terrain_tex |-> "Pong", water_input_tex |-> "Pong", water_output_tex |-> "Ping"]
thermalErosionBindGroup ==
    [terrain_in |-> "Pong", water_in |-> "Ping", terrain_out |-> "Ping"]

\* the two bind groups of the distance-field pipeline: input and output are
\* the two instances of the seed/distance grid
jfaBindGroupPingToPong == [inputTex |-> "Ping", outputTex |-> "Pong"]
jfaBindGroupPongToPing == [inputTex |-> "Pong", outputTex |-> "Ping"]

\* a faulty reverse binding that reads and writes like the forward one (a
\* variant for testing C19)
margolusBindGroupStale ==
    [terrain_tex |-> "Ping", water_tex |-> "Ping", water_out_tex |-> "Pong"]
\* initBindGroups: the texture instances bound by the Margolus bind groups
margolusBindGroup ==
    [terrain_tex |-> "Ping", water_tex |-> "Ping", water_out_tex |-> "Pong"]
margolusBindGroupReverse ==
    [terrain_tex |-> "Ping", water_tex |-> "Pong", water_out_tex |-> "Ping"]

-----------------------------------------------------------------------------
(* Orchestrator: final Margolus passes (simulation.js step 8)              *)

offsets == <<(<<0, 0>>), (<<1, 0>>), (<<0, 1>>), (<<1, 1>>)>>

\* numIter = (buffers.margolusBinarySearchIterations ?? config... ?? 8) >>> 0
numIter == cfg.margolusBinarySearchIterations

FloorLog2[n \in Nat] == IF n <= 1 THEN 0 ELSE 1 + FloorLog2[n \div 2]
MaxSize == IF sizeX < sizeY THEN sizeY ELSE sizeX
jfaPasses == FloorLog2[MaxSize] + 1
\* a step size that halves from the grid size on, pass 0 included (a variant
\* for testing C21)
stepSizeFromMax(i) ==
    IF MaxSize \div Pow2[i] < 1 THEN 1 ELSE MaxSize \div Pow2[i]
\* step size of pass i: 1, then max(sizeX, sizeY) >> i clamped to at least 1
stepSize(i) ==
    IF i = 0 THEN 1
    ELSE IF MaxSize \div Pow2[i] < 1 THEN 1 ELSE MaxSize \div Pow2[i]

\* 2) writeBuffer(jfaMaxBuffer, 0, [0])
JfaResetMax ==
    /\ pc = "jfaReset"
    /\ jfaMaxBuffer' = <<0, 0>>
    /\ pc' = "jfaCopy"
    /\ UNCHANGED <<host, probe, sizeX, sizeY, cfg, noiseTex, jfaSeedTex, jfaTex, jfaParams,
                   jfaInputIsPing, blendedTerrainTex, terrainTex, waterTex,
                   erosionIteration, margolusParams, loopI, currIsPing, staging,
                   data, log, injected, evaporated, sched>>

\* 3) copy jfaSeedTex to jfaTexPing; the loop starts with jfaInputIsPing = true
JfaCopySeeds ==
    /\ pc = "jfaCopy"
    /\ jfaTex' = [jfaTex EXCEPT !.Ping = jfaSeedTex]
    /\ jfaInputIsPing' = TRUE
    /\ loopI' = 0
    /\ pc' = "jfa"
    /\ UNCHANGED <<host, probe, sizeX, sizeY, cfg, noiseTex, jfaSeedTex, jfaParams,
                   jfaMaxBuffer, blendedTerrainTex, terrainTex, waterTex,
                   erosionIteration, margolusParams, currIsPing, staging,
                   data, log, injected, evaporated, sched>>

\* 4) one pass of the loop: write the parameters, dispatch, submit, swap
JfaPassAction ==
    /\ pc = "jfa"
    /\ loopI < jfaPasses
    /\ LET params == [stepSize |-> stepSize(loopI), gridWidth |-> sizeX,
                      gridHeight |-> sizeY,
                      computeMax |-> IF loopI = jfaPasses - 1 THEN 1 ELSE 0]
           jfaBindGroup == IF jfaInputIsPing THEN jfaBindGroupPingToPong
                           ELSE jfaBindGroupPongToPing
           out == JfaPass(params.stepSize, params.gridWidth, params.gridHeight,
                          jfaTex[jfaBindGroup.inputTex],
                          jfaTex[jfaBindGroup.outputTex])
       IN  /\ jfaParams' = params
           /\ jfaTex' = [jfaTex EXCEPT ![jfaBindGroup.outputTex] = out]
           /\ jfaMaxBuffer' =
                IF params.computeMax = 1
                THEN AtomicMaxAll(jfaMaxBuffer, Workgroups(sizeX, sizeY),
                                  params.gridWidth, params.gridHeight, out)
                ELSE jfaMaxBuffer
           /\ log' = Append(log, "JFA")
    /\ jfaInputIsPing' = ~jfaInputIsPing
    /\ loopI' = loopI + 1
    /\ UNCHANGED <<host, probe, pc, sizeX, sizeY, cfg, noiseTex, jfaSeedTex, blendedTerrainTex,
                   terrainTex, waterTex, erosionIteration, margolusParams,
                   currIsPing, staging, data, injected, evaporated, sched>>

\* after the loop: if the last output is in Pong, copy it back to Ping
JfaFinalCopy ==
    /\ pc = "jfa"
    /\ loopI >= jfaPasses
    /\ jfaTex' = IF ~jfaInputIsPing THEN [jfaTex EXCEPT !.Ping = jfaTex.Pong]
                 ELSE jfaTex
    /\ pc' = "blend"
    /\ UNCHANGED <<host, probe, sizeX, sizeY, cfg, noiseTex, jfaSeedTex, jfaParams, jfaMaxBuffer,
                   jfaInputIsPing, blendedTerrainTex, terrainTex, waterTex,
                   erosionIteration, margolusParams, loopI, currIsPing, staging,
                   data, log, injected, evaporated, sched>>

\* 1) the noise kernel writes noiseTex and jfaSeedTex
NoiseDispatch ==
    /\ pc = "noise"
    /\ noiseTex' = [c \in Cells(sizeX, sizeY) |->
                       IF c \in Dispatched(sizeX, sizeY)
                       THEN NoiseTexel(cfg.seed, c[1], c[2]) ELSE noiseTex[c]]
    /\ jfaSeedTex' = [c \in Cells(sizeX, sizeY) |->
                         IF c \in Dispatched(sizeX, sizeY)
                         THEN JfaSeedTexel(cfg.seed, cfg.jfaThreshold, c[1], c[2])
                         ELSE jfaSeedTex[c]]
    /\ log' = Append(log, "Noise")
    /\ pc' = "jfaReset"
    /\ UNCHANGED <<host, probe, sizeX, sizeY, cfg, jfaTex, jfaParams, jfaMaxBuffer,
                   jfaInputIsPing, blendedTerrainTex, terrainTex, waterTex,
                   erosionIteration, margolusParams, loopI, currIsPing,
                   staging, data, injected, evaporated, sched>>

\* 5) blend the noise height and the distance field into blendedTerrainTex
BlendDispatch ==
    /\ pc = "blend"
    /\ blendedTerrainTex' =
         BlendPass(sizeX, sizeY, noiseTex, jfaTex.Ping, jfaMaxBuffer,
                   cfg.heightmapWeight, cfg.distanceWeight, blendedTerrainTex)
    /\ log' = Append(log, "Blend")
    /\ pc' = "copyBlend"
    /\ UNCHANGED <<host, probe, sizeX, sizeY, cfg, noiseTex, jfaSeedTex, jfaTex,
                   jfaParams, jfaMaxBuffer, jfaInputIsPing, terrainTex,
                   waterTex, erosionIteration, margolusParams, loopI,
                   currIsPing, staging, data, injected, evaporated, sched>>

\* the stage the erosion loop runs at counter i: its body, or the next phase
ErosionLoopStage(i) == IF i < cfg.iterations THEN "hydraulic" ELSE "margolus"
\* a faulty order, thermal before still-water (a variant for testing C9)
ErosionStageSwapped(stage) ==
    IF stage = "hydraulic" THEN "thermal"
    ELSE IF stage = "thermal" THEN "stillwater"
    ELSE "loop"
\* the order of the three dispatches recorded in one ErosionStep encoder
ErosionStageAfter(stage) ==
    IF stage = "hydraulic" THEN "stillwater"
    ELSE IF stage = "stillwater" THEN "thermal"
    ELSE "loop"

\* 6) copy blendedTerrainTex to terrainTexPing; the erosion loop starts
CopyBlendedToTerrainPing ==
    /\ pc = "copyBlend"
    /\ terrainTex' = [terrainTex EXCEPT !.Ping = blendedTerrainTex]
    /\ loopI' = 0
    /\ pc' = ErosionLoopStage(0)
    /\ UNCHANGED <<host, probe, sizeX, sizeY, cfg, noiseTex, jfaSeedTex, jfaTex,
                   jfaParams, jfaMaxBuffer, jfaInputIsPing,
                   blendedTerrainTex, waterTex, erosionIteration,
                   margolusParams, currIsPing, staging, data, log, injected,
                   evaporated, sched>>

\* the texels a dispatch leaves in an output texture: stores[i] is what the
\* invocation of cell CellAt(i, w) stored
DispatchStore(stores, w, h, outputTex) ==
    [c \in {CellAt(i, w) : i \in DOMAIN stores} \cup DOMAIN outputTex |->
        IF CellIndex(c, w) \in DOMAIN stores /\ c \in Dispatched(w, h)
        THEN stores[CellIndex(c, w)] ELSE outputTex[c]]
TerrainStores(stores) == [i \in DOMAIN stores |-> stores[i].terrain]
WaterStores(stores) == [i \in DOMAIN stores |-> stores[i].water]

\* 7) step 1: updateErosionIteration(i), then the hydraulic dispatch
HydraulicSubmit(stores) ==
    LET spawned(c) == stores[CellIndex(c, sizeX)].spawned
        lost(c) == stores[CellIndex(c, sizeX)].evaporated
    IN  /\ DOMAIN stores = 1 .. sizeX * sizeY
        /\ terrainTex' =
             [terrainTex EXCEPT ![erosionBindGroup.terrain_output_tex] =
                 DispatchStore(TerrainStores(stores), sizeX, sizeY,
                               terrainTex[erosionBindGroup.terrain_output_tex])]
        /\ waterTex' =
             [waterTex EXCEPT ![erosionBindGroup.water_output_tex] =
                 DispatchStore(WaterStores(stores), sizeX, sizeY,
                               waterTex[erosionBindGroup.water_output_tex])]
        /\ injected' = QAdd[injected, GridSum(spawned, sizeX, sizeY)]
        /\ evaporated' = QAdd[evaporated, GridSum(lost, sizeX, sizeY)]
ErosionHydraulic ==
    /\ pc = "hydraulic"
    /\ HydraulicSubmit(HydraulicPass(ErosionParams(loopI),
                           terrainTex[erosionBindGroup.terrain_input_tex],
                           waterTex[erosionBindGroup.water_input_tex]))
    /\ erosionIteration' = loopI
    /\ log' = Append(log, "Hydraulic")
    /\ pc' = ErosionStageAfter("hydraulic")
    /\ UNCHANGED <<host, probe, sizeX, sizeY, cfg, noiseTex, jfaSeedTex, jfaTex,
                   jfaParams, jfaMaxBuffer, jfaInputIsPing,
                   blendedTerrainTex, margolusParams, loopI, currIsPing,
                   staging, data, sched>>

\* 7) step 2: still-water redistribution
ErosionStillWater ==
    /\ pc = "stillwater"
    /\ waterTex' =
         [waterTex EXCEPT ![stillWaterRedistributionBindGroup.water_output_tex] =
             DispatchStore(
                 StillWaterPass(StillWaterParams,
                     terrainTex[stillWaterRedistributionBindGroup.terrain_tex],
                     waterTex[stillWaterRedistributionBindGroup.water_input_tex]),
                 sizeX, sizeY,
                 waterTex[stillWaterRedistributionBindGroup.water_output_tex])]
    /\ log' = Append(log, "StillWater")
    /\ pc' = ErosionStageAfter("stillwater")
    /\ UNCHANGED <<host, probe, sizeX, sizeY, cfg, noiseTex, jfaSeedTex, jfaTex,
                   jfaParams, jfaMaxBuffer, jfaInputIsPing,
                   blendedTerrainTex, terrainTex, erosionIteration,
                   margolusParams, loopI, currIsPing, staging, data,
                   injected, evaporated, sched>>

\* 7) step 3: thermal erosion; the encoder is submitted and the loop goes on
ErosionThermal ==
    /\ pc = "thermal"
    /\ terrainTex' =
         [terrainTex EXCEPT ![thermalErosionBindGroup.terrain_out] =
             DispatchStore(
                 ThermalPass(<<sizeX, sizeY>>, StillWaterParams, ThermalParams,
                     terrainTex[thermalErosionBindGroup.terrain_in],
                     waterTex[thermalErosionBindGroup.water_in]),
                 sizeX, sizeY,
                 terrainTex[thermalErosionBindGroup.terrain_out])]
    /\ log' = Append(log, "Thermal")
    /\ loopI' = IF ErosionLoopStage(loopI + 1) = "margolus" THEN 0 ELSE loopI + 1
    /\ currIsPing' = TRUE
    /\ pc' = IF ErosionStageAfter("thermal") = "loop"
             THEN ErosionLoopStage(loopI + 1)
             ELSE ErosionStageAfter("thermal")
    /\ UNCHANGED <<host, probe, sizeX, sizeY, cfg, noiseTex, jfaSeedTex, jfaTex,
                   jfaParams, jfaMaxBuffer, jfaInputIsPing,
                   blendedTerrainTex, waterTex, erosionIteration,
                   margolusParams, staging, data, injected, evaporated,
                   sched>>

\* a parameter block that still holds the offset of the sub-pass before (a
\* variant for testing C22)
MargolusParamsOfPreviousSubPass ==
    [offset_x |-> offsets[((loopI + 3) % 4) + 1][1],
     offset_y |-> offsets[((loopI + 3) % 4) + 1][2],
     num_iterations |-> numIter]
\* the parameter block of the sub-pass about to be dispatched
NextMargolusParams ==
    [offset_x |-> offsets[(loopI % 4) + 1][1],
     offset_y |-> offsets[(loopI % 4) + 1][2],
     num_iterations |-> numIter]

\* one sub-pass: write the parameter block, copy the current water texture
\* to the other instance, dispatch, submit, flip currIsPing
MargolusSubPass ==
    /\ pc = "margolus"
    /\ loopI < 4 * cfg.margolusPasses
    /\ LET off == offsets[(loopI % 4) + 1]
           params == [offset_x |-> off[1], offset_y |-> off[2],
                      num_iterations |-> numIter]
           chosenBind == IF currIsPing THEN margolusBindGroup
                         ELSE margolusBindGroupReverse
           src == IF currIsPing THEN "Ping" ELSE "Pong"
           afterCopy == [waterTex EXCEPT ![Other(src)] = waterTex[src]]
           out == MargolusPass(params, sizeX, sizeY, cfg.waterHeightFactor,
                               terrainTex[chosenBind.terrain_tex],
                               afterCopy[chosenBind.water_tex],
                               afterCopy[chosenBind.water_out_tex])
       IN  /\ margolusParams' = params
           /\ waterTex' = [afterCopy EXCEPT ![chosenBind.water_out_tex] = out]
           /\ log' = Append(log, "Margolus")
    /\ currIsPing' = ~currIsPing
    /\ loopI' = loopI + 1
    /\ UNCHANGED <<host, probe, pc, sizeX, sizeY, cfg, noiseTex, jfaSeedTex, jfaTex, jfaParams,
                   jfaMaxBuffer, jfaInputIsPing, blendedTerrainTex, terrainTex,
                   erosionIteration, staging, data, injected, evaporated, sched>>

\* after the loop: make sure the final water result is in waterTexPing
MargolusFinalCopy ==
    /\ pc = "margolus"
    /\ loopI >= 4 * cfg.margolusPasses
    /\ waterTex' = IF ~currIsPing THEN [waterTex EXCEPT !.Ping = waterTex.Pong]
                   ELSE waterTex
    /\ currIsPing' = TRUE
    /\ pc' = "staging"
    /\ UNCHANGED <<host, probe, sizeX, sizeY, cfg, noiseTex, jfaSeedTex, jfaTex, jfaParams,
                   jfaMaxBuffer, jfaInputIsPing, blendedTerrainTex, terrainTex,
                   erosionIteration, margolusParams, loopI, staging, data, log,
                   injected, evaporated, sched>>

\* initStagingBuffers / step 9: rows of the staging buffers are padded to a
\* multiple of 256 bytes; a texel takes 16 bytes
bytesPerPixel == 16
bytesPerRowAligned(sx) == CeilDiv(sx * bytesPerPixel, 256) * 256
RowTexels(sx) == bytesPerRowAligned(sx) \div bytesPerPixel
StagingTexels(sx, sy) == (bytesPerRowAligned(sx) * sy) \div bytesPerPixel
\* a freshly created staging buffer
ZeroStaging(sx, sy) == [i \in 0 .. StagingTexels(sx, sy) - 1 |-> ZeroTexel]

\* copyTextureToBuffer with bytesPerRow = bytesPerRowAligned
copyTextureToBuffer(tex, buf, sx, sy) ==
    [i \in DOMAIN buf |->
        IF i % RowTexels(sx) < sx /\ i \div RowTexels(sx) < sy
        THEN tex[<<i % RowTexels(sx), i \div RowTexels(sx)>>]
        ELSE buf[i]]

\* 9) copy terrainTexPing and waterTexPing to the staging buffers
CopyTexturesToStaging ==
    /\ pc = "staging"
    /\ staging' =
         [terrain |-> copyTextureToBuffer(terrainTex.Ping, staging.terrain,
                                          sizeX, sizeY),
          water |-> copyTextureToBuffer(waterTex.Ping, staging.water, sizeX, sizeY)]
    /\ pc' = "map"
    /\ UNCHANGED <<host, probe, sizeX, sizeY, cfg, noiseTex, jfaSeedTex, jfaTex,
                   jfaParams, jfaMaxBuffer, jfaInputIsPing,
                   blendedTerrainTex, terrainTex, waterTex, erosionIteration,
                   margolusParams, loopI, currIsPing, data, log, injected,
                   evaporated, sched>>

\* util.js: float k of texel i of a mapped buffer is terrainData[i * 4 + k]
extractTerrainAndWaterData(terrainBuffer, waterBuffer, sx, sy) ==
    [ height          |-> [i \in 0 .. sx * sy - 1 |-> terrainBuffer[i].r],
      terrain_g       |-> [i \in 0 .. sx * sy - 1 |-> terrainBuffer[i].g],
      terrain_b       |-> [i \in 0 .. sx * sy - 1 |-> terrainBuffer[i].b],
      terrain_a       |-> [i \in 0 .. sx * sy - 1 |-> terrainBuffer[i].a],
      flowingWater    |-> [i \in 0 .. sx * sy - 1 |-> waterBuffer[i].r],
      flowingSediment |-> [i \in 0 .. sx * sy - 1 |-> waterBuffer[i].g],
      stillWater      |-> [i \in 0 .. sx * sy - 1 |-> waterBuffer[i].b],
      stillSediment   |-> [i \in 0 .. sx * sy - 1 |-> waterBuffer[i].a] ]

\* read back: both buffers are mapped (the queue has finished), the arrays
\* are extracted and returned
Readback ==
    /\ pc = "map"
    /\ data' = extractTerrainAndWaterData(staging.terrain, staging.water,
                                          sizeX, sizeY)
    /\ log' = Append(log, "Readback")
    /\ pc' = "done"
    /\ UNCHANGED <<host, probe, sizeX, sizeY, cfg, noiseTex, jfaSeedTex, jfaTex,
                   jfaParams, jfaMaxBuffer, jfaInputIsPing,
                   blendedTerrainTex, terrainTex, waterTex, erosionIteration,
                   margolusParams, loopI, currIsPing, staging, injected,
                   evaporated, sched>>

-----------------------------------------------------------------------------
(* A whole run                                                             *)

MainSizes == {<<3, 1>>, <<4, 1>>, <<1, 2>>, <<2, 2>>, <<5, 1>>}
\* the configurations of the runs: the defaults with some fields changed
Configs ==
    { [DefaultCfg EXCEPT !.seed = sd, !.iterations = it, !.spawnCycles = sc,
                         !.distanceWeight = dw,
                         !.margolusBinarySearchIterations = bs] :
        sd \in 0 .. Len(NoiseTable) - 1, it \in {1, 2, 3}, sc \in {1, 2},
        dw \in {Zero, One}, bs \in {4, 8} }

\* createSimulationState: every texture and buffer of a run is created anew,
\* zero-initialised
InitState(sz, c) ==
    /\ sizeX = sz[1] /\ sizeY = sz[2]
    /\ cfg = c
    /\ noiseTex = ZeroGrid(sz[1], sz[2])
    /\ jfaSeedTex = ZeroGrid(sz[1], sz[2])
    /\ jfaTex = [inst \in {"Ping", "Pong"} |-> ZeroGrid(sz[1], sz[2])]
    /\ jfaParams = [stepSize |-> 0, gridWidth |-> sz[1], gridHeight |-> sz[2],
                    computeMax |-> 0]
    /\ jfaMaxBuffer = <<0, 0>>
    /\ jfaInputIsPing = TRUE
    /\ blendedTerrainTex = ZeroGrid(sz[1], sz[2])
    /\ terrainTex = [inst \in {"Ping", "Pong"} |-> ZeroGrid(sz[1], sz[2])]
    /\ waterTex = [inst \in {"Ping", "Pong"} |-> ZeroGrid(sz[1], sz[2])]
    /\ erosionIteration = 0
    /\ margolusParams = [offset_x |-> 0, offset_y |-> 0,
                         num_iterations |-> c.margolusBinarySearchIterations]
    /\ loopI = 0 /\ currIsPing = TRUE
    /\ staging = [terrain |-> ZeroStaging(sz[1], sz[2]),
                  water |-> ZeroStaging(sz[1], sz[2])]
    /\ data = None /\ log = <<>>
    /\ injected = Zero /\ evaporated = Zero /\ sched = Idle
    /\ host = HostIdle /\ probe = NoProbe
    /\ pc = "noise"

Init == \E sz \in MainSizes, c \in Configs : InitState(sz, c)

Next ==
    \/ NoiseDispatch
    \/ JfaResetMax \/ JfaCopySeeds \/ JfaPassAction \/ JfaFinalCopy
    \/ BlendDispatch \/ CopyBlendedToTerrainPing
    \/ ErosionHydraulic \/ ErosionStillWater \/ ErosionThermal
    \/ MargolusSubPass \/ MargolusFinalCopy
    \/ CopyTexturesToStaging \/ Readback

Spec == Init /\ [][Next]_vars

-----------------------------------------------------------------------------
(* Runs with configuration values outside the ranges of the defaults: the  *)
(* configuration is passed to the shaders as it is entered                 *)

WideSizes == {<<3, 1>>, <<2, 2>>, <<4, 1>>}
WideConfigs ==
    { [DefaultCfg EXCEPT !.seed = sd, !.iterations = it, !.spawnCycles = sc,
                         !.stillWaterRelaxation = relax] :
        sd \in 0 .. Len(NoiseTable) - 1, it \in {2, 3}, sc \in {1, 2},
        relax \in {Half, <<3, 2>>} }
InitWide == \E sz \in WideSizes, c \in WideConfigs : InitState(sz, c)
SpecWide == InitWide /\ [][Next]_vars

-----------------------------------------------------------------------------
(* A run whose dispatches execute invocation by invocation: the GPU runs   *)
(* the invocations and workgroups of a dispatch in any order, each reading *)
(* and writing the textures as they are when it runs.  sched holds the     *)
(* units of the current dispatch still to run and the textures as they     *)
(* were when the dispatch began.                                           *)

Textures ==
    [noiseTex |-> noiseTex, jfaSeedTex |-> jfaSeedTex, jfaTex |-> jfaTex,
     jfaMaxBuffer |-> jfaMaxBuffer, blendedTerrainTex |-> blendedTerrainTex,
     terrainTex |-> terrainTex, waterTex |-> waterTex]
SetTextures(T) ==
    /\ noiseTex' = T.noiseTex
    /\ jfaSeedTex' = T.jfaSeedTex
    /\ jfaTex' = T.jfaTex
    /\ jfaMaxBuffer' = T.jfaMaxBuffer
    /\ blendedTerrainTex' = T.blendedTerrainTex
    /\ terrainTex' = T.terrainTex
    /\ waterTex' = T.waterTex

ComputeStages ==
    {"noise", "jfa", "blend", "hydraulic", "stillwater", "thermal", "margolus"}
\* a dispatch is the next thing the orchestrator submits
DispatchNext ==
    /\ pc \in ComputeStages
    /\ pc = "jfa" => loopI < jfaPasses
    /\ pc = "margolus" => loopI < 4 * cfg.margolusPasses
JfaStageBind ==
    IF jfaInputIsPing THEN jfaBindGroupPingToPong ELSE jfaBindGroupPongToPing
MargolusStageBind ==
    IF currIsPing THEN margolusBindGroup ELSE margolusBindGroupReverse
JfaComputesMax == pc = "jfa" /\ loopI = jfaPasses - 1

\* the textures after the host work that precedes the dispatch: the Margolus
\* sub-pass first copies the current water texture to the other instance
StagePrepared(S) ==
    IF pc = "margolus"
    THEN [S EXCEPT !.waterTex[MargolusStageBind.water_out_tex] =
                       S.waterTex[MargolusStageBind.water_tex]]
    ELSE S

\* what the stores of all invocations of the dispatch of stage pc make of the
\* textures S, every invocation reading S
HydraulicStage(S, stores) ==
    [S EXCEPT
        !.terrainTex[erosionBindGroup.terrain_output_tex] =
            DispatchStore(TerrainStores(stores), sizeX, sizeY,
                          S.terrainTex[erosionBindGroup.terrain_output_tex]),
        !.waterTex[erosionBindGroup.water_output_tex] =
            DispatchStore(WaterStores(stores), sizeX, sizeY,
                          S.waterTex[erosionBindGroup.water_output_tex])]
StageResult(S) ==
    CASE pc = "noise" ->
           [S EXCEPT
              !.noiseTex = [c \in Cells(sizeX, sizeY) |->
                               NoiseTexel(cfg.seed, c[1], c[2])],
              !.jfaSeedTex = [c \in Cells(sizeX, sizeY) |->
                                 JfaSeedTexel(cfg.seed, cfg.jfaThreshold, c[1], c[2])]]
      [] pc = "jfa" ->
           [S EXCEPT
              !.jfaTex[JfaStageBind.outputTex] =
                  JfaPass(stepSize(loopI), sizeX, sizeY,
                          S.jfaTex[JfaStageBind.inputTex],
                          S.jfaTex[JfaStageBind.outputTex])]
      [] pc = "blend" ->
           [S EXCEPT
              !.blendedTerrainTex =
                  BlendPass(sizeX, sizeY, S.noiseTex, S.jfaTex.Ping, S.jfaMaxBuffer,
                            cfg.heightmapWeight, cfg.distanceWeight,
                            S.blendedTerrainTex)]
      [] pc = "hydraulic" ->
           HydraulicStage(S,
               HydraulicPass(ErosionParams(loopI),
                             S.terrainTex[erosionBindGroup.terrain_input_tex],
                             S.waterTex[erosionBindGroup.water_input_tex]))
      [] pc = "stillwater" ->
           [S EXCEPT
              !.waterTex[stillWaterRedistributionBindGroup.water_output_tex] =
                  DispatchStore(
                      StillWaterPass(StillWaterParams,
                          S.terrainTex[stillWaterRedistributionBindGroup.terrain_tex],
                          S.waterTex[stillWaterRedistributionBindGroup.water_input_tex]),
                      sizeX, sizeY,
                      S.waterTex[stillWaterRedistributionBindGroup.water_output_tex])]
      [] pc = "thermal" ->
           [S EXCEPT
              !.terrainTex[thermalErosionBindGroup.terrain_out] =
                  DispatchStore(
                      ThermalPass(<<sizeX, sizeY>>, StillWaterParams, ThermalParams,
                          S.terrainTex[thermalErosionBindGroup.terrain_in],
                          S.waterTex[thermalErosionBindGroup.water_in]),
                      sizeX, sizeY,
                      S.terrainTex[thermalErosionBindGroup.terrain_out])]
      [] pc = "margolus" ->
           [S EXCEPT
              !.waterTex[MargolusStageBind.water_out_tex] =
                  MargolusPass(NextMargolusParams, sizeX, sizeY,
                               cfg.waterHeightFactor,
                               S.terrainTex[MargolusStageBind.terrain_tex],
                               S.waterTex[MargolusStageBind.water_tex],
                               S.waterTex[MargolusStageBind.water_out_tex])]

\* the cells the invocation of cell c stores to
WritesOf(c) ==
    IF pc = "margolus"
    THEN IF c \in ProcessedAnchors(NextMargolusParams, sizeX, sizeY)
         THEN MargolusWrites(c, NextMargolusParams, sizeX, sizeY)
         ELSE {}
    ELSE {c}
UnitWrites(u) == UNION {WritesOf(c) : c \in u}

\* current textures with the cells `cells` taken from `full`
MergeGrid(cur, full, cells) ==
    [c \in DOMAIN full |-> IF c \in cells THEN full[c] ELSE cur[c]]
MergePair(cur, full, cells) ==
    [inst \in {"Ping", "Pong"} |-> MergeGrid(cur[inst], full[inst], cells)]
MergeTextures(cur, full, cells) ==
    [noiseTex |-> MergeGrid(cur.noiseTex, full.noiseTex, cells),
     jfaSeedTex |-> MergeGrid(cur.jfaSeedTex, full.jfaSeedTex, cells),
     jfaTex |-> MergePair(cur.jfaTex, full.jfaTex, cells),
     jfaMaxBuffer |-> cur.jfaMaxBuffer,
     blendedTerrainTex |->
         MergeGrid(cur.blendedTerrainTex, full.blendedTerrainTex, cells),
     terrainTex |-> MergePair(cur.terrainTex, full.terrainTex, cells),
     waterTex |-> MergePair(cur.waterTex, full.waterTex, cells)]

\* the units scheduled independently: single invocations on grids of at most
\* MaxInterleaved cells, whole workgroups on larger grids
MaxInterleaved == 4
StageWgSize == IF pc = "margolus" THEN MARGOLUS_WG ELSE WORKGROUP_SIZE
WgOf(c) == <<c[1] \div StageWgSize, c[2] \div StageWgSize>>
SchedUnits ==
    IF sizeX * sizeY <= MaxInterleaved
    THEN {{c} : c \in Cells(sizeX, sizeY)}
    ELSE {{c \in Cells(sizeX, sizeY) : WgOf(c) = g} :
             g \in {WgOf(c) : c \in Cells(sizeX, sizeY)}}

\* the orchestrator's pass bookkeeping, as in the actions above
StageLabel ==
    CASE pc = "noise" -> "Noise" [] pc = "jfa" -> "JFA" [] pc = "blend" -> "Blend"
      [] pc = "hydraulic" -> "Hydraulic" [] pc = "stillwater" -> "StillWater"
      [] pc = "thermal" -> "Thermal" [] pc = "margolus" -> "Margolus"
StagePcAfter ==
    CASE pc = "noise" -> "jfaReset"
      [] pc = "blend" -> "copyBlend"
      [] pc \in {"hydraulic", "stillwater"} -> ErosionStageAfter(pc)
      [] pc = "thermal" -> IF ErosionStageAfter("thermal") = "loop"
                           THEN ErosionLoopStage(loopI + 1)
                           ELSE ErosionStageAfter("thermal")
      [] OTHER -> pc
StageLoopAfter ==
    CASE pc \in {"jfa", "margolus"} -> loopI + 1
      [] pc = "thermal" ->
           IF ErosionLoopStage(loopI + 1) = "margolus" THEN 0 ELSE loopI + 1
      [] OTHER -> loopI

\* the dispatch is submitted: parameter blocks are written, the units wait
SchedBegin ==
    /\ sched = Idle
    /\ DispatchNext
    /\ SetTextures(StagePrepared(Textures))
    /\ sched' = [pending |-> SchedUnits,
                 atomics |-> IF JfaComputesMax THEN Workgroups(sizeX, sizeY) ELSE {},
                 begin |-> StagePrepared(Textures)]
    /\ jfaParams' =
         IF pc = "jfa"
         THEN [stepSize |-> stepSize(loopI), gridWidth |-> sizeX,
               gridHeight |-> sizeY,
               computeMax |-> IF loopI = jfaPasses - 1 THEN 1 ELSE 0]
         ELSE jfaParams
    /\ erosionIteration' = IF pc = "hydraulic" THEN loopI ELSE erosionIteration
    /\ margolusParams' = IF pc = "margolus" THEN NextMargolusParams
                         ELSE margolusParams
    /\ UNCHANGED <<host, probe, pc, sizeX, sizeY, cfg, jfaInputIsPing, loopI, currIsPing,
                   staging, data, log, injected, evaporated>>

\* one unit runs: its invocations read the textures as they are now and
\* store their texels
SchedInvoke ==
    /\ sched # Idle
    /\ \E u \in sched.pending :
          /\ SetTextures(MergeTextures(Textures, StageResult(Textures),
                                       UnitWrites(u)))
          /\ sched' = [sched EXCEPT !.pending = @ \ {u}]
    /\ UNCHANGED <<host, probe, pc, sizeX, sizeY, cfg, jfaParams, jfaInputIsPing,
                   erosionIteration, margolusParams, loopI, currIsPing,
                   staging, data, log, injected, evaporated>>

\* thread 0 of a workgroup whose invocations have passed the barriers does
\* its atomicMax on the max buffer
SchedAtomicMax ==
    /\ sched # Idle
    /\ \E g \in sched.atomics :
          /\ \A u \in sched.pending : \A c \in u : WgOf(c) # g
          /\ jfaMaxBuffer' =
               U32Max(jfaMaxBuffer,
                      LocalMaxAfter(8, 0, g, sizeX, sizeY,
                                    jfaTex[JfaStageBind.outputTex]))
          /\ sched' = [sched EXCEPT !.atomics = @ \ {g}]
    /\ UNCHANGED <<host, probe, pc, sizeX, sizeY, cfg, noiseTex, jfaSeedTex, jfaTex,
                   jfaParams, jfaInputIsPing, blendedTerrainTex, terrainTex,
                   waterTex, erosionIteration, margolusParams, loopI,
                   currIsPing, staging, data, log, injected, evaporated>>

\* the dispatch has completed: the orchestrator goes on
SchedEnd ==
    /\ sched # Idle
    /\ sched.pending = {} /\ sched.atomics = {}
    /\ sched' = Idle
    /\ log' = Append(log, StageLabel)
    /\ pc' = StagePcAfter
    /\ loopI' = StageLoopAfter
    /\ jfaInputIsPing' = IF pc = "jfa" THEN ~jfaInputIsPing ELSE jfaInputIsPing
    /\ currIsPing' = IF pc = "margolus" THEN ~currIsPing
                     ELSE IF pc = "thermal" THEN TRUE ELSE currIsPing
    /\ UNCHANGED <<host, probe, sizeX, sizeY, cfg, noiseTex, jfaSeedTex, jfaTex, jfaParams,
                   jfaMaxBuffer, blendedTerrainTex, terrainTex, waterTex,
                   erosionIteration, margolusParams, staging, data, injected,
                   evaporated>>

SchedSizes == {<<2, 2>>, <<3, 1>>, <<17, 1>>}
SchedConfigs ==
    { [DefaultCfg EXCEPT !.seed = sd, !.iterations = 2, !.spawnCycles = 2,
                         !.distanceWeight = One] : sd \in {0, 1} }
InitSched == \E sz \in SchedSizes, c \in SchedConfigs : InitState(sz, c)
NextSched ==
    \/ SchedBegin \/ SchedInvoke \/ SchedAtomicMax \/ SchedEnd
    \/ JfaResetMax \/ JfaCopySeeds \/ JfaFinalCopy
    \/ CopyBlendedToTerrainPing \/ MargolusFinalCopy
    \/ CopyTexturesToStaging \/ Readback
SpecSched == InitSched /\ [][NextSched]_vars

-----------------------------------------------------------------------------
(* Runs of every loop length: no erosion iteration or several, no Margolus  *)
(* pass or several, an odd or an even number of distance-field passes.      *)

OrderSizes == {<<1, 1>>, <<2, 2>>, <<4, 1>>}
OrderConfigs ==
    { [DefaultCfg EXCEPT !.seed = sd, !.iterations = it, !.spawnCycles = 2,
                         !.margolusPasses = mp, !.distanceWeight = One] :
        sd \in {0, 1}, it \in {0, 1, 2}, mp \in {0, 1, 2} }
InitOrder == \E sz \in OrderSizes, c \in OrderConfigs : InitState(sz, c)
SpecOrder == InitOrder /\ [][Next]_vars

-----------------------------------------------------------------------------
(* Runs whose droplets fall on some cells only: spawn densities below 1,    *)
(* two random seeds, and more loop iterations than spawn cycles.            *)

SpawnSizes == {<<2, 2>>, <<3, 1>>, <<4, 1>>}
SpawnConfigs ==
    { [DefaultCfg EXCEPT !.iterations = 3, !.spawnCycles = sc,
                         !.spawnDensity = d, !.randomSeed = rs] :
        sc \in {0, 1, 2}, d \in {Q[1, 4], Half, One}, rs \in {7, 42} }
InitSpawn == \E sz \in SpawnSizes, c \in SpawnConfigs : InitState(sz, c)
SpecSpawn == InitSpawn /\ [][Next]_vars

-----------------------------------------------------------------------------
(* The page around the pipeline: runSimulation of main.js.  A run r goes    *)
(* through initWebGPU, createSimulationState (initBuffers) and              *)
(* executeErosionSimulation, then renders its data; an exception or a       *)
(* rejected promise at any of these takes it to the catch clause.  The     *)
(* runs of a page follow one another.                                       *)

\* the configurations a caller can pass: a valid one, one with a dimension
\* <= 0, one with a parameter that is NaN or infinite
ConfigKinds == {"ok", "nonPositiveSize", "nonFinite"}

\* the device operations of executeErosionSimulation in program order, for
\* one erosion iteration and one Margolus pass
ExecOps ==
    <<"writeBuffer", "submit",                \* noise parameters, noise
      "writeBuffer", "submit",                \* max buffer reset, copy seeds
      "writeBuffer", "submit", "submit",      \* JFA parameters, pass, copy
      "submit", "submit",                     \* blend, copy blended
      "writeBuffer", "submit",                \* iteration, erosion step
      "writeBuffer", "submit", "submit",      \* Margolus sub-pass, final copy
      "submit",                               \* copy to staging
      "mapAsync", "mapAsync">>

\* the number of parameter blocks initBuffers writes with queue.writeBuffer
InitBufferWrites == 5

PipelineVars ==
    <<pc, sizeX, sizeY, cfg, noiseTex, jfaSeedTex, jfaTex, jfaParams,
      jfaMaxBuffer, jfaInputIsPing, blendedTerrainTex, terrainTex, waterTex,
      erosionIteration, margolusParams, loopI, currIsPing, staging, data, log,
      injected, evaporated, sched, probe>>

RunPhase(r) == host.runs[r].phase
SetRun(r, rec) == [host EXCEPT !.runs[r] = rec]

\* runSimulation(currentConfig) is called: setRunButtonLoading(true)
RunStart ==
    /\ \E r \in RunIds, k \in ConfigKinds :
          /\ RunPhase(r) = "unstarted"
          /\ \A q \in RunIds : q < r => RunPhase(q) = "settled"
          /\ host' = [host EXCEPT !.loading = TRUE,
                                  !.runs[r] = [NoRun EXCEPT !.phase = "initWebGPU",
                                                            !.kind = k]]
    /\ UNCHANGED PipelineVars

\* if (!device) device = await initWebGPU()
RunInitWebGPU ==
    /\ \E r \in RunIds :
          /\ RunPhase(r) = "initWebGPU"
          /\ host' = [host EXCEPT !.device = TRUE,
                                  !.runs[r].phase = "createSimulationState"]
    /\ UNCHANGED PipelineVars

\* createSimulationState: initBuffers destructures the configuration and
\* writes the parameter blocks, then creates the textures
RunCreateState ==
    /\ \E r \in RunIds :
          /\ RunPhase(r) = "createSimulationState"
          /\ host' = [host EXCEPT
                        !.runs[r].writes = @ + InitBufferWrites,
                        !.runs[r].phase = "executeErosionSimulation"]
    /\ UNCHANGED PipelineVars

\* executeErosionSimulation: its next device operation succeeds
RunExecOpOf(r, op) ==
    host' = [host EXCEPT
               !.runs[r].step = @ + 1,
               !.runs[r].writes = IF op = "writeBuffer" THEN @ + 1 ELSE @,
               !.runs[r].submits = IF op = "submit" THEN @ + 1 ELSE @,
               !.runs[r].phase = IF host.runs[r].step + 1 = Len(ExecOps)
                                 THEN "render" ELSE @]
RunExecOp ==
    /\ \E r \in RunIds :
          /\ RunPhase(r) = "executeErosionSimulation"
          /\ RunExecOpOf(r, ExecOps[host.runs[r].step + 1])
    /\ UNCHANGED PipelineVars

\* the places of a run where the device can throw or reject: initWebGPU
\* (no adapter), resource creation, and the awaited mapAsync
CanThrow(r) ==
    \/ RunPhase(r) = "initWebGPU" /\ ~host.device
    \/ RunPhase(r) = "createSimulationState"
    \/ /\ RunPhase(r) = "executeErosionSimulation"
       /\ ExecOps[host.runs[r].step + 1] = "mapAsync"
\* a run whose exception is swallowed and which goes on to render (a
\* variant for testing C12, not main.js)
CatchClauseMissing == "render"
\* try { ... } catch (error): where control goes when the try block throws
CatchClause == "catch"
RunThrow ==
    /\ \E r \in RunIds :
          /\ CanThrow(r)
          /\ host' = [host EXCEPT !.runs[r].threw = TRUE,
                                  !.runs[r].phase = CatchClause]
    /\ UNCHANGED PipelineVars

\* renderSingleResolutionGrid(data of run r)
RunRenderCanvases ==
    /\ \E r \in RunIds :
          /\ RunPhase(r) = "render"
          /\ host' = [host EXCEPT !.canvases = r,
                                  !.runs[r].phase = "initializeScene"]
    /\ UNCHANGED PipelineVars

\* await initializeScene(data of run r): the scene shows the run, or the
\* scene library throws
RunInitializeScene ==
    /\ \E r \in RunIds :
          /\ RunPhase(r) = "initializeScene"
          /\ \/ host' = [host EXCEPT !.scene = r, !.runs[r].phase = "finally"]
             \/ host' = [host EXCEPT !.runs[r].phase = "catch"]
    /\ UNCHANGED PipelineVars

\* catch (error) { console.error(...) }
RunCatch ==
    /\ \E r \in RunIds :
          /\ RunPhase(r) = "catch"
          /\ host' = [host EXCEPT !.runs[r].phase = "finally"]
    /\ UNCHANGED PipelineVars

\* finally { setRunButtonLoading(false) }
RunFinally ==
    /\ \E r \in RunIds :
          /\ RunPhase(r) = "finally"
          /\ host' = [host EXCEPT !.loading = FALSE,
                                  !.runs[r].phase = "settled"]
    /\ UNCHANGED PipelineVars

InitRun == InitState(<<2, 2>>, DefaultCfg)
NextRun ==
    \/ RunStart \/ RunInitWebGPU \/ RunCreateState \/ RunExecOp \/ RunThrow
    \/ RunRenderCanvases \/ RunInitializeScene \/ RunCatch \/ RunFinally
SpecRun == InitRun /\ [][NextRun]_vars

-----------------------------------------------------------------------------
(* Equilibration alone, on grids large enough for more than one workgroup  *)

MargolusSizes == {<<1, 1>>, <<2, 2>>, <<3, 2>>, <<4, 1>>, <<5, 3>>, <<17, 1>>, <<18, 2>>}
NumPatterns == 3

\* terrain and still-water patterns of the equilibration inputs
HeightPattern(k, c) == QInt[((k + 1) * c[1] + (k + 2) * c[2]) % 4]
WaterPattern(k, c) == Q[(c[1] + 2 * c[2] + k) % 3, Pow2[k]]

InitMargolus ==
    \E sz \in MargolusSizes, hk \in 0 .. NumPatterns - 1, wk \in 0 .. NumPatterns - 1,
       whf \in {One, <<1, 2>>}, passes \in {1, 2} :
        /\ sizeX = sz[1] /\ sizeY = sz[2]
        /\ cfg = [DefaultCfg EXCEPT !.waterHeightFactor = whf, !.margolusPasses = passes]
        /\ terrainTex =
             [inst \in {"Ping", "Pong"} |->
                [c \in Cells(sz[1], sz[2]) |->
                   [r |-> HeightPattern(hk, c), g |-> Zero, b |-> Zero, a |-> One]]]
        /\ waterTex =
             [inst \in {"Ping", "Pong"} |->
                [c \in Cells(sz[1], sz[2]) |->
                   IF inst = "Ping"
                   THEN [r |-> Q[1 + c[1], 4], g |-> Q[1 + c[2], 8],
                         b |-> WaterPattern(wk, c), a |-> Q[1 + c[1] + c[2], 16]]
                   ELSE ZeroTexel]]
        /\ pc = "margolus" /\ loopI = 0 /\ currIsPing = TRUE
        /\ margolusParams = [offset_x |-> 0, offset_y |-> 0,
                             num_iterations |-> cfg.margolusBinarySearchIterations]
        /\ noiseTex = None /\ jfaSeedTex = None /\ jfaTex = None /\ jfaParams = None
        /\ jfaMaxBuffer = None /\ jfaInputIsPing = TRUE /\ blendedTerrainTex = None
        /\ erosionIteration = 0 /\ staging = None /\ data = None /\ log = <<>>
        /\ injected = Zero /\ evaporated = Zero /\ sched = Idle
        /\ host = HostIdle /\ probe = NoProbe

NextMargolus == MargolusSubPass \/ MargolusFinalCopy
SpecMargolus == InitMargolus /\ [][NextMargolus]_vars

-----------------------------------------------------------------------------
(* The distance field on its own: from the seed grid to the blend          *)

JfaSizes == {<<1, 1>>, <<2, 2>>, <<3, 2>>, <<4, 4>>, <<5, 3>>, <<7, 1>>, <<8, 1>>,
             <<17, 1>>}
\* seed grids: one seed at s, or (two = TRUE) a second seed at the last cell
SeedGrid(w, h, s, two) ==
    [c \in Cells(w, h) |->
        IF c = s \/ (two /\ c = <<w - 1, h - 1>>)
        THEN SeedTexel(c[1], c[2], Q[1 + ((c[1] + c[2]) % 3), 4])
        ELSE SentinelTexel]

InitJfa ==
    \E sz \in JfaSizes, two \in BOOLEAN :
      \E s \in Cells(sz[1], sz[2]) :
        /\ sizeX = sz[1] /\ sizeY = sz[2]
        /\ cfg = DefaultCfg
        /\ jfaSeedTex = SeedGrid(sz[1], sz[2], s, two)
        /\ noiseTex = [c \in Cells(sz[1], sz[2]) |->
                          [r |-> jfaSeedTex[c].b, g |-> Zero, b |-> Zero, a |-> One]]
        /\ jfaTex = [inst \in {"Ping", "Pong"} |-> ZeroGrid(sz[1], sz[2])]
        /\ jfaParams = [stepSize |-> 0, gridWidth |-> sz[1], gridHeight |-> sz[2],
                        computeMax |-> 0]
        /\ jfaMaxBuffer \in {<<0, 0>>, <<3, 0>>}
        /\ jfaInputIsPing = TRUE
        /\ pc = "jfaReset" /\ loopI = 0 /\ currIsPing = TRUE
        /\ blendedTerrainTex = ZeroGrid(sz[1], sz[2])
        /\ terrainTex = [inst \in {"Ping", "Pong"} |-> ZeroGrid(sz[1], sz[2])]
        /\ waterTex = [inst \in {"Ping", "Pong"} |-> ZeroGrid(sz[1], sz[2])]
        /\ margolusParams = None /\ erosionIteration = 0
        /\ staging = None /\ data = None /\ log = <<>>
        /\ injected = Zero /\ evaporated = Zero /\ sched = Idle
        /\ host = HostIdle /\ probe = NoProbe

NextJfa == JfaResetMax \/ JfaCopySeeds \/ JfaPassAction \/ JfaFinalCopy
SpecJfa == InitJfa /\ [][NextJfa]_vars

\* the same stage with the invocations of each pass and the atomicMax of each
\* workgroup in any order, followed by the blend pass that reads the max
\* buffer
NextJfaSched ==
    \/ JfaResetMax \/ JfaCopySeeds \/ JfaFinalCopy
    \/ (pc \in {"jfa", "blend"} /\ SchedBegin)
    \/ SchedInvoke \/ SchedAtomicMax \/ SchedEnd
SpecJfaSched == InitJfa /\ [][NextJfaSched]_vars

-----------------------------------------------------------------------------
(* The flow weights of the hydraulic kernel alone: the input textures hold  *)
(* any heights of a small set, and compute_normalized_flow_weights is       *)
(* applied to any cell.                                                     *)

FlowSizes == {<<3, 3>>, <<3, 2>>, <<2, 2>>, <<3, 1>>, <<1, 2>>, <<1, 1>>}
FlowHeights == {Zero, Half, One}
\* a terrain texel of height t
HeightTexel(t) == [r |-> t, g |-> Zero, b |-> Zero, a |-> One]

\* a state in which a kernel function can be applied on its own: the terrain
\* input holds the heights t, the other textures are as created
KernelState(sz, t, pr) ==
    /\ sizeX = sz[1] /\ sizeY = sz[2]
    /\ cfg = DefaultCfg
    /\ noiseTex = ZeroGrid(sz[1], sz[2])
    /\ jfaSeedTex = ZeroGrid(sz[1], sz[2])
    /\ jfaTex = [inst \in {"Ping", "Pong"} |-> ZeroGrid(sz[1], sz[2])]
    /\ jfaParams = None
    /\ jfaMaxBuffer = <<0, 0>>
    /\ jfaInputIsPing = TRUE
    /\ blendedTerrainTex = ZeroGrid(sz[1], sz[2])
    /\ terrainTex = [inst \in {"Ping", "Pong"} |->
                        IF inst = erosionBindGroup.terrain_input_tex
                        THEN [c \in Cells(sz[1], sz[2]) |-> HeightTexel(t[c])]
                        ELSE ZeroGrid(sz[1], sz[2])]
    /\ waterTex = [inst \in {"Ping", "Pong"} |-> ZeroGrid(sz[1], sz[2])]
    /\ margolusParams = None /\ erosionIteration = 0
    /\ loopI = 0 /\ currIsPing = TRUE
    /\ staging = None /\ data = None /\ log = <<>>
    /\ injected = Zero /\ evaporated = Zero /\ sched = Idle
    /\ host = HostIdle /\ probe = pr
    /\ pc = "hydraulic"

InitFlow ==
    \E sz \in FlowSizes :
      \E t \in [Cells(sz[1], sz[2]) -> FlowHeights] : KernelState(sz, t, NoProbe)

\* the cells the function is applied to: the cells with all 8 neighbours in
\* the grid if there are any (the smaller grids have the border cases), else
\* every cell
InteriorCells(w, h) == {c \in Cells(w, h) : InBounds(c[1] - 1, c[2] - 1, w, h) /\ InBounds(c[1] + 1, c[2] + 1, w, h)}
ProbedCells(w, h) == IF InteriorCells(w, h) # {} THEN InteriorCells(w, h) ELSE Cells(w, h)

\* the invocation of cell pos computes its outgoing flow weights from the
\* bound input textures
ProbeFlowWeights ==
    /\ pc = "hydraulic" /\ probe = NoProbe
    /\ \E pos \in ProbedCells(sizeX, sizeY) :
          probe' = [kernel |-> "flow", pos |-> pos,
                    weights |-> compute_normalized_flow_weights(pos,
                                    ErosionParams(loopI),
                                    terrainTex[erosionBindGroup.terrain_input_tex],
                                    waterTex[erosionBindGroup.water_input_tex])]
    /\ UNCHANGED <<host, pc, sizeX, sizeY, cfg, noiseTex, jfaSeedTex, jfaTex,
                   jfaParams, jfaMaxBuffer, jfaInputIsPing, blendedTerrainTex,
                   terrainTex, waterTex, erosionIteration, margolusParams,
                   loopI, currIsPing, staging, data, log, injected, evaporated,
                   sched>>

NextFlow == ProbeFlowWeights
SpecFlow == InitFlow /\ [][NextFlow]_vars

-----------------------------------------------------------------------------
(* The adaptive exponent of the flow weights alone: the Laplacian of the    *)
(* effective height is any value of a set that has small values of both     *)
(* signs, in steps of 1/1024, and very large ones.                          *)

Laplacians ==
    {Q[k, 1024] : k \in -40 .. 40}
        \cup {QInt[k] : k \in {-1000000, -39996, -4, 4, 39996, 1000000}}

InitExponent ==
    \E lap \in Laplacians :
        KernelState(<<1, 1>>, [c \in Cells(1, 1) |-> Zero],
                    [kernel |-> "laplacian", lap |-> lap])

\* valleyness and p as compute_normalized_flow_weights derives them from lap
ProbeFlowExponent ==
    /\ probe.kernel = "laplacian"
    /\ probe' = [kernel |-> "exponent", lap |-> probe.lap,
                 valleyness |-> Valleyness(probe.lap),
                 p |-> FlowExponent(Valleyness(probe.lap))]
    /\ UNCHANGED <<host, pc, sizeX, sizeY, cfg, noiseTex, jfaSeedTex, jfaTex,
                   jfaParams, jfaMaxBuffer, jfaInputIsPing, blendedTerrainTex,
                   terrainTex, waterTex, erosionIteration, margolusParams,
                   loopI, currIsPing, staging, data, log, injected, evaporated,
                   sched>>

NextExponent == ProbeFlowExponent
SpecExponent == InitExponent /\ [][NextExponent]_vars

-----------------------------------------------------------------------------
(* The thermal erosion alone: one pass over input textures that hold any    *)
(* cell contents of a small set (low and high, dry, wet and immersed), with *)
(* strengths from negative to large and a clamp of 0, 1/16 or 1/4.          *)

ThermalSizes == {<<2, 2>>, <<3, 1>>, <<1, 1>>}
\* <<height, flowing water, still water>> of a cell
ThermalContents ==
    {<<Zero, Zero, Zero>>, <<Q[1, 16], Half, Zero>>, <<Half, Zero, Half>>,
     <<One, Zero, Zero>>}
ThermalStrengths == {QInt[-1], Q[1, 8], One, QInt[8]}
ThermalClamps == {Zero, Q[1, 16], Q[1, 4]}
ThermalTerrainTexel(c, ct) == [r |-> ct[1], g |-> Q[1 + c[1], 4], b |-> Q[1 + c[2], 8], a |-> Q[1 + c[1] + c[2], 16]]
ThermalWaterTexel(ct) == [r |-> ct[2], g |-> Zero, b |-> ct[3], a |-> Zero]

InitThermal ==
    \E sz \in ThermalSizes, ts \in ThermalStrengths, md \in ThermalClamps :
      \E ct \in [Cells(sz[1], sz[2]) -> ThermalContents] :
        /\ sizeX = sz[1] /\ sizeY = sz[2]
        /\ cfg = [DefaultCfg EXCEPT !.thermalStrength = ts,
                                    !.thermalMaxDeltaPerPass = md]
        /\ noiseTex = ZeroGrid(sz[1], sz[2])
        /\ jfaSeedTex = ZeroGrid(sz[1], sz[2])
        /\ jfaTex = [inst \in {"Ping", "Pong"} |-> ZeroGrid(sz[1], sz[2])]
        /\ jfaParams = None
        /\ jfaMaxBuffer = <<0, 0>>
        /\ jfaInputIsPing = TRUE
        /\ blendedTerrainTex = ZeroGrid(sz[1], sz[2])
        /\ terrainTex = [inst \in {"Ping", "Pong"} |->
                            IF inst = thermalErosionBindGroup.terrain_in
                            THEN [c \in Cells(sz[1], sz[2]) |-> ThermalTerrainTexel(c, ct[c])]
                            ELSE ZeroGrid(sz[1], sz[2])]
        /\ waterTex = [inst \in {"Ping", "Pong"} |->
                          IF inst = thermalErosionBindGroup.water_in
                          THEN [c \in Cells(sz[1], sz[2]) |-> ThermalWaterTexel(ct[c])]
                          ELSE ZeroGrid(sz[1], sz[2])]
        /\ margolusParams = None /\ erosionIteration = 0
        /\ loopI = 0 /\ currIsPing = TRUE
        /\ staging = None /\ data = None /\ log = <<>>
        /\ injected = Zero /\ evaporated = Zero /\ sched = Idle
        /\ host = HostIdle /\ probe = NoProbe
        /\ pc = "thermal"

NextThermal == ErosionThermal
SpecThermal == InitThermal /\ [][NextThermal]_vars

-----------------------------------------------------------------------------
(* The hydraulic pass alone: one pass over input textures that hold any     *)
(* cell contents of a small set: low cells with water and sediment, which   *)
(* are pits next to higher cells, and higher cells whose flowing water      *)
(* they gather, up to more than the cap.                                    *)

PitSizes == {<<2, 2>>, <<3, 1>>}
\* <<height, flowing water, flowing sediment, still water, still sediment>>
PitContents ==
    {<<Zero, Half, Q[1, 8], Q[1, 4], Q[1, 16]>>,
     <<Zero, Q[1, 4], Zero, Zero, Q[1, 8]>>,
     <<Half, Q[3, 2], Q[1, 8], Half, Q[1, 8]>>,
     <<One, One, Q[1, 4], Zero, Zero>>}
\* <<depositionRate, evapRate>>
PitRates == {<<Q[1, 4], Q[1, 8]>>, <<One, Zero>>}
PitTerrainTexel(ct) == [r |-> ct[1], g |-> Zero, b |-> Zero, a |-> One]
PitWaterTexel(ct) == [r |-> ct[2], g |-> ct[3], b |-> ct[4], a |-> ct[5]]

InitPit ==
    \E sz \in PitSizes, rt \in PitRates :
      \E ct \in [Cells(sz[1], sz[2]) -> PitContents] :
        /\ sizeX = sz[1] /\ sizeY = sz[2]
        /\ cfg = [DefaultCfg EXCEPT !.depositionRate = rt[1], !.evapRate = rt[2]]
        /\ noiseTex = ZeroGrid(sz[1], sz[2])
        /\ jfaSeedTex = ZeroGrid(sz[1], sz[2])
        /\ jfaTex = [inst \in {"Ping", "Pong"} |-> ZeroGrid(sz[1], sz[2])]
        /\ jfaParams = None
        /\ jfaMaxBuffer = <<0, 0>>
        /\ jfaInputIsPing = TRUE
        /\ blendedTerrainTex = ZeroGrid(sz[1], sz[2])
        /\ terrainTex = [inst \in {"Ping", "Pong"} |->
                            IF inst = erosionBindGroup.terrain_input_tex
                            THEN [c \in Cells(sz[1], sz[2]) |-> PitTerrainTexel(ct[c])]
                            ELSE ZeroGrid(sz[1], sz[2])]
        /\ waterTex = [inst \in {"Ping", "Pong"} |->
                          IF inst = erosionBindGroup.water_input_tex
                          THEN [c \in Cells(sz[1], sz[2]) |-> PitWaterTexel(ct[c])]
                          ELSE ZeroGrid(sz[1], sz[2])]
        /\ margolusParams = None /\ erosionIteration = 0
        /\ loopI = 0 /\ currIsPing = TRUE
        /\ staging = None /\ data = None /\ log = <<>>
        /\ injected = Zero /\ evaporated = Zero /\ sched = Idle
        /\ host = HostIdle /\ probe = NoProbe
        /\ pc = "hydraulic"

NextPit == ErosionHydraulic
SpecPit == InitPit /\ [][NextPit]_vars

-----------------------------------------------------------------------------
(* The run up to the blend, with blend weights of every kind: one of them   *)
(* 0, both positive, and pairs whose quotient lies outside [0, 1].          *)

BlendSizes == {<<1, 1>>, <<2, 2>>, <<3, 1>>, <<5, 1>>}
\* <<heightmapWeight, distanceWeight>>
BlendWeights ==
    {<<One, Zero>>, <<Zero, One>>, <<One, One>>, <<Q[3, 4], Q[1, 4]>>,
     <<QInt[2], QInt[-1]>>, <<QInt[-1], QInt[2]>>}
BlendConfigs ==
    { [DefaultCfg EXCEPT !.seed = sd, !.heightmapWeight = bw[1],
                         !.distanceWeight = bw[2]] :
        sd \in 0 .. Len(NoiseTable) - 1, bw \in BlendWeights }
InitBlend == \E sz \in BlendSizes, c \in BlendConfigs : InitState(sz, c)
NextBlend ==
    \/ NoiseDispatch
    \/ JfaResetMax \/ JfaCopySeeds \/ JfaPassAction \/ JfaFinalCopy
    \/ BlendDispatch
SpecBlend == InitBlend /\ [][NextBlend]_vars

-----------------------------------------------------------------------------
(* Properties of the final equilibration                                   *)

MargolusPending == pc = "margolus" /\ loopI < 4 * cfg.margolusPasses
CurrentWater == waterTex[IF currIsPing THEN "Ping" ELSE "Pong"]

\* sum over the cells written by anchor gid of volume * waterHeightFactor
BlockWaterBefore(gid) ==
    LET cs == MargolusWrites(gid, NextMargolusParams, sizeX, sizeY)
        v(i) == IF BlockCell(gid[1], gid[2], i) \in cs
                THEN QMul[CurrentWater[BlockCell(gid[1], gid[2], i)].b,
                          cfg.waterHeightFactor]
                ELSE Zero
    IN  Sum4(<<v(1), v(2), v(3), v(4)>>)
BlockWaterAfter(gid) ==
    LET cs == MargolusWrites(gid, NextMargolusParams, sizeX, sizeY)
        v(i) == IF BlockCell(gid[1], gid[2], i) \in cs
                THEN QMul[MargolusEqV(gid, BlockCell(gid[1], gid[2], i),
                                      NextMargolusParams, sizeX, sizeY,
                                      cfg.waterHeightFactor, terrainTex.Ping,
                                      CurrentWater),
                          cfg.waterHeightFactor]
                ELSE Zero
    IN  Sum4(<<v(1), v(2), v(3), v(4)>>)

\* |a - b| <= 1e-4 * b
WithinTolerance(a, b) ==
    /\ QLe[QSub[a, b], QMul[Q[1, 10000], b]]
    /\ QLe[QSub[b, a], QMul[Q[1, 10000], b]]

\* C1 (as claimed): every block a sub-pass processes keeps its total still
\* water (volume * waterHeightFactor) within a relative tolerance of 1e-4,
\* with the configured number of bisection iterations.
C1_BlockMassWithinTolerance ==
    MargolusPending =>
        \A an \in ProcessedAnchors(NextMargolusParams, sizeX, sizeY) :
            WithinTolerance(BlockWaterAfter(an), BlockWaterBefore(an))

\* C4 (as claimed): in every sub-pass every in-grid cell whose parity matches
\* the offset is processed as the anchor of a block.
C4_EveryAnchorProcessed ==
    (pc = "margolus" /\ loopI > 0) =>
        \A c \in Cells(sizeX, sizeY) :
            MargolusIsAnchor(c, margolusParams, sizeX, sizeY) =>
                c \in ProcessedAnchors(margolusParams, sizeX, sizeY)

\* the cells of the blocks the sub-pass with parameter block params processes
ProcessedCells(params) ==
    UNION {MargolusWrites(gid, params, sizeX, sizeY) :
              gid \in ProcessedAnchors(params, sizeX, sizeY)}
\* the step is a Margolus sub-pass
MargolusSubPassStep == pc = "margolus" /\ loopI' = loopI + 1

\* C15: a Margolus sub-pass leaves all four water channels of the cells
\* outside the processed blocks and the flowing-water, flowing-sediment and
\* still-sediment channels of every cell as they were; it does not write the
\* terrain
C15_MargolusFrame ==
    [][MargolusSubPassStep =>
         /\ \A c \in Cells(sizeX, sizeY) :
               /\ c \notin ProcessedCells(NextMargolusParams) =>
                     waterTex'[MargolusStageBind.water_out_tex][c] = CurrentWater[c]
               /\ waterTex'[MargolusStageBind.water_out_tex][c].r = CurrentWater[c].r
               /\ waterTex'[MargolusStageBind.water_out_tex][c].g = CurrentWater[c].g
               /\ waterTex'[MargolusStageBind.water_out_tex][c].a = CurrentWater[c].a
         /\ terrainTex' = terrainTex]_vars
\* after a sub-pass with offset (1, 1): a processed cell has new still water,
\* a cell outside the processed blocks holds still water, and the flowing
\* channels are not zero
C15_Witness ==
    /\ pc = "margolus" /\ loopI > 0 /\ loopI % 4 = 0
    /\ \E c \in ProcessedCells(margolusParams) :
          /\ CurrentWater[c].b # waterTex[IF currIsPing THEN "Pong" ELSE "Ping"][c].b
          /\ CurrentWater[c].r # Zero /\ CurrentWater[c].a # Zero
    /\ \E c \in Cells(sizeX, sizeY) \ ProcessedCells(margolusParams) :
          CurrentWater[c].b # Zero /\ CurrentWater[c].g # Zero

-----------------------------------------------------------------------------
(* Properties of the distance field                                        *)

Seeds == {c \in Cells(sizeX, sizeY) : ~QLt[jfaSeedTex[c].r, Zero]}
\* cell c records seed s and its Euclidean distance to it
RecordsSeed(c, s) ==
    /\ jfaTex.Ping[c].r = <<s[1], 1>>
    /\ jfaTex.Ping[c].g = <<s[2], 1>>
    /\ jfaTex.Ping[c].a = distance(s, c)

\* C8 (as claimed): with exactly one seed in the initial grid, after the
\* floor(log2(max(W,H))) + 1 passes and the final copy every cell records that
\* seed's coordinate and its Euclidean distance to it
C8_SingleSeedReachesEveryCell ==
    (pc = "blend" /\ Cardinality(Seeds) = 1) =>
        \A s \in Seeds : \A c \in Cells(sizeX, sizeY) : RecordsSeed(c, s)

-----------------------------------------------------------------------------
(* Properties of a whole run                                               *)

\* the hydraulic dispatch about to be submitted: its inputs and what the
\* invocation of cell c computes, before the values are stored
HydraulicPending == pc = "hydraulic"
PendingTerrain == terrainTex[erosionBindGroup.terrain_input_tex]
PendingWater == waterTex[erosionBindGroup.water_input_tex]
PendingCell(c) ==
    HydraulicCell(c, ErosionParams(loopI), PendingTerrain, PendingWater,
                  FlowWeightTable(ErosionParams(loopI), PendingTerrain,
                                  PendingWater))

\* terrain height + flowing sediment + still sediment of the grid
SedimentBefore ==
    LET m(c) == QAdd[PendingTerrain[c].r,
                     QAdd[PendingWater[c].g, PendingWater[c].a]]
    IN  GridSum(m, sizeX, sizeY)
SedimentAfter ==
    LET m(c) == QAdd[PendingCell(c).next_height,
                     QAdd[PendingCell(c).next_flowing_sediment,
                          PendingCell(c).next_still_sediment]]
    IN  GridSum(m, sizeX, sizeY)
\* the sediment at cell c before the bed exchange: what it gathers from its
\* neighbours, its still sediment and, in a pit, its own flowing sediment
SedimentCarriedIn(c) ==
    QAdd[QAdd[PendingCell(c).inflow[2], PendingWater[c].a],
         IF PendingCell(c).pit THEN PendingWater[c].g ELSE Zero]
SedimentCarriedOut(c) ==
    QAdd[PendingCell(c).next_flowing_sediment, PendingCell(c).next_still_sediment]

\* C5: a hydraulic pass neither creates nor destroys sediment: at every cell
\* the change of the terrain height is the opposite of the change of the
\* sediment carried there, and the grid total of terrain height + flowing
\* sediment + still sediment is the same before and after the pass.
C5_HydraulicConservesSediment ==
    HydraulicPending =>
        /\ \A c \in Cells(sizeX, sizeY) :
              QSub[PendingCell(c).next_height, PendingTerrain[c].r] =
                  QSub[SedimentCarriedIn(c), SedimentCarriedOut(c)]
        /\ SedimentAfter = SedimentBefore

\* a pass that erodes at one cell and carries sediment between cells
C5_Witness ==
    /\ HydraulicPending
    /\ \E c \in Cells(sizeX, sizeY) : QLt[Zero, PendingCell(c).exchange]
    /\ \E c \in Cells(sizeX, sizeY) : QLt[Zero, PendingCell(c).inflow[2]]

\* C6 (as claimed): after every hydraulic pass the flowing water of every
\* cell, droplet included, is at most MAX_WATER_PER_CELL.
C6_FlowingWaterWithinCap ==
    pc = "stillwater" =>
        \A c \in Cells(sizeX, sizeY) :
            QLe[waterTex[erosionBindGroup.water_output_tex][c].r, MAX_WATER_PER_CELL]

\* the water grid the last pass wrote
LatestWater ==
    IF pc = "stillwater" THEN waterTex[erosionBindGroup.water_output_tex]
    ELSE IF pc = "margolus" THEN waterTex[IF currIsPing THEN "Ping" ELSE "Pong"]
    ELSE waterTex.Ping
WaterTotal(grid) ==
    LET m(c) == QAdd[grid[c].r, grid[c].b]
    IN  GridSum(m, sizeX, sizeY)

\* C7 (as claimed): after each hydraulic, still-water and Margolus pass the
\* grid total of flowing + still water is at most the volume injected by
\* droplets so far minus the volume evaporated so far.
C7_WaterBoundedByInjection ==
    pc \in {"stillwater", "thermal", "margolus", "staging"} =>
        QLe[WaterTotal(LatestWater), QSub[injected, evaporated]]

\* n copies of the sequence s
Repeat(s, n) == [i \in 1 .. n * Len(s) |-> s[((i - 1) % Len(s)) + 1]]
ExpectedLog ==
    <<"Noise">> \o Repeat(<<"JFA">>, jfaPasses) \o <<"Blend">>
        \o Repeat(<<"Hydraulic", "StillWater", "Thermal">>, cfg.iterations)
        \o Repeat(<<"Margolus">>, 4 * cfg.margolusPasses) \o <<"Readback">>
IsPrefix(s, t) == Len(s) <= Len(t) /\ s = SubSeq(t, 1, Len(s))

\* C9: the passes run in the order Noise, the distance-field passes, Blend,
\* then N times (Hydraulic, Still-Water, Thermal), then 4 x margolusPasses
\* equilibration sub-passes, then the readback, which comes last.
C9_PassOrder ==
    /\ IsPrefix(log, ExpectedLog)
    /\ pc = "done" <=> log = ExpectedLog

\* a finished run of two loop iterations
C9_Witness == pc = "done" /\ cfg.iterations = 2 /\ Len(log) > 12

\* C3 (as claimed): element y * W + x of each returned array is the channel
\* of the final grid at cell (x, y).
C3_ArraysMatchFinalGrids ==
    pc = "done" =>
        \A c \in Cells(sizeX, sizeY) :
            /\ data.height[c[2] * sizeX + c[1]] = terrainTex.Ping[c].r
            /\ data.flowingWater[c[2] * sizeX + c[1]] = waterTex.Ping[c].r
            /\ data.flowingSediment[c[2] * sizeX + c[1]] = waterTex.Ping[c].g
            /\ data.stillWater[c[2] * sizeX + c[1]] = waterTex.Ping[c].b
            /\ data.stillSediment[c[2] * sizeX + c[1]] = waterTex.Ping[c].a

\* C2 (as claimed): whatever the configuration values, every channel of the
\* water grid (flowing water, flowing sediment, still water, still sediment)
\* of every cell is >= 0 after any number of passes.
C2_WaterChannelsNonNegative ==
    \A inst \in {"Ping", "Pong"} : \A c \in Cells(sizeX, sizeY) :
        /\ QLe[Zero, waterTex[inst][c].r]
        /\ QLe[Zero, waterTex[inst][c].g]
        /\ QLe[Zero, waterTex[inst][c].b]
        /\ QLe[Zero, waterTex[inst][c].a]

-----------------------------------------------------------------------------
(* Properties of the max-distance accumulator                               *)

\* the largest quantized distance of the in-grid cells of a distance grid
MaxQuantizedOf(cells, tex) ==
    LET q == {Quantize(tex[c].a) : c \in cells}
    IN  CHOOSE m \in q : \A o \in q : U32Max(m, o) = m
\* the final pass of the distance-field loop is being executed
FinalJfaPassRunning == JfaComputesMax /\ sched # Idle
\* the loop has not reached its final pass / has completed it
BeforeFinalJfaPass ==
    \/ pc = "jfaCopy"
    \/ pc = "jfa" /\ loopI < jfaPasses /\ ~FinalJfaPassRunning
AfterFinalJfaPass ==
    \/ pc = "jfa" /\ loopI >= jfaPasses
    \/ pc \in {"blend", "copyBlend"}
\* the grid that holds the output of the last pass
FinalDistanceGrid ==
    IF pc = "jfa" /\ ~jfaInputIsPing THEN jfaTex.Pong ELSE jfaTex.Ping

\* C13: the max-distance accumulator is 0 from the reset until the final
\* distance-field pass, changes only at the reset and during the final pass,
\* and after that pass is the largest Q16.16-quantized final distance of the
\* in-grid cells, whatever the seed grid and the order of the atomicMax calls
C13_MaxAccumulator ==
    [][/\ jfaMaxBuffer' # jfaMaxBuffer => pc = "jfaReset" \/ FinalJfaPassRunning
       /\ BeforeFinalJfaPass' => jfaMaxBuffer' = <<0, 0>>
       /\ AfterFinalJfaPass' =>
             jfaMaxBuffer' = MaxQuantizedOf(Cells(sizeX, sizeY), FinalDistanceGrid')]_vars
\* a run on two workgroups whose stale accumulator was replaced by a distance
\* that is neither 0 nor the saturated value, and that the blend has read
C13_Witness ==
    /\ pc = "copyBlend" /\ wg(sizeX) * wg(sizeY) > 1
    /\ jfaMaxBuffer \notin {<<0, 0>>, <<U16 - 1, U16 - 1>>}
    /\ jfaMaxBuffer = MaxQuantizedOf(Cells(sizeX, sizeY), jfaTex.Ping)

-----------------------------------------------------------------------------
(* Properties of the flow weights                                           *)

\* the effective height the hydraulic kernel reads for cell c
ProbedHeight(c) ==
    get_effective_height(c, ErosionParams(loopI),
                         terrainTex[erosionBindGroup.terrain_input_tex],
                         waterTex[erosionBindGroup.water_input_tex])
\* neighbour i of cell pos is in the grid and strictly lower than pos
StrictlyLower(pos, i) ==
    /\ ~is_out_of_bounds(NeighborPos(pos, i), sizeX, sizeY)
    /\ QLt[ProbedHeight(NeighborPos(pos, i)), ProbedHeight(pos)]

\* C14: the outgoing flow weights of a cell are each >= 0, are 0 for the
\* neighbours outside the grid and for those that are not strictly lower,
\* and sum to 1 if some in-grid neighbour is strictly lower, to 0 otherwise
C14_FlowWeightsNormalized ==
    probe.kernel = "flow" =>
        /\ \A i \in 1 .. 8 :
              /\ QLe[Zero, probe.weights[i]]
              /\ ~StrictlyLower(probe.pos, i) => probe.weights[i] = Zero
        /\ Sum8(probe.weights) =
              IF \E i \in 1 .. 8 : StrictlyLower(probe.pos, i) THEN One ELSE Zero
\* an interior cell with lower neighbours at two different drops and a
\* neighbour that is not lower; a cell at the border with a lower neighbour
C14_Witness ==
    /\ probe.kernel = "flow" /\ sizeX = 3 /\ sizeY = 3 /\ probe.pos = <<1, 1>>
    /\ \E i, j, k \in 1 .. 8 :
          /\ StrictlyLower(probe.pos, i) /\ StrictlyLower(probe.pos, j)
          /\ ProbedHeight(NeighborPos(probe.pos, i)) # ProbedHeight(NeighborPos(probe.pos, j))
          /\ ~StrictlyLower(probe.pos, k)
          /\ QLt[Zero, probe.weights[i]] /\ QLt[Zero, probe.weights[j]]
          /\ probe.weights[i] # probe.weights[j]

\* C17: whatever the Laplacian of the effective height, the exponent p of the
\* flow weights lies in [0.8, 2.5]; it is 0.8 when valleyness is 0 and 2.5
\* when valleyness is 1
C17_ExponentBounded ==
    probe.kernel = "exponent" =>
        /\ QLe[<<4, 5>>, probe.p] /\ QLe[probe.p, <<5, 2>>]
        /\ probe.valleyness = Zero => probe.p = <<4, 5>>
        /\ probe.valleyness = One => probe.p = <<5, 2>>
\* a Laplacian far below the range where valleyness is clamped, with p = 2.5
C17_Witness ==
    /\ probe.kernel = "exponent"
    /\ QLt[probe.lap, QInt[-1000]]
    /\ probe.valleyness = One /\ probe.p = <<5, 2>>

-----------------------------------------------------------------------------
(* Properties of the still-water redistribution                             *)

\* the step is a still-water redistribution pass
StillWaterStep == pc = "stillwater" /\ pc' # pc
StillWaterRead == waterTex[stillWaterRedistributionBindGroup.water_input_tex]
StillWaterWritten == waterTex[stillWaterRedistributionBindGroup.water_output_tex]

\* C16: a still-water redistribution pass writes for every cell the flowing
\* water and the flowing sediment it read for that cell, and does not write
\* the terrain
C16_StillWaterKeepsFlowing ==
    [][StillWaterStep =>
         /\ \A c \in Cells(sizeX, sizeY) :
               /\ StillWaterWritten'[c].r = StillWaterRead[c].r
               /\ StillWaterWritten'[c].g = StillWaterRead[c].g
         /\ StillWaterRead' = StillWaterRead
         /\ terrainTex' = terrainTex]_vars
\* after a pass that moved still water: a cell carries flowing water and
\* flowing sediment, and the still water of a cell differs from what was read
C16_Witness ==
    /\ pc = "thermal"
    /\ \E c \in Cells(sizeX, sizeY) :
          /\ StillWaterWritten[c].r # Zero /\ StillWaterWritten[c].g # Zero
          /\ StillWaterWritten[c].r = StillWaterRead[c].r
    /\ \E c \in Cells(sizeX, sizeY) :
          StillWaterWritten[c].b # StillWaterRead[c].b

-----------------------------------------------------------------------------
(* Properties of the still-water balance                                    *)

StillTerrainRead == terrainTex[stillWaterRedistributionBindGroup.terrain_tex]
\* the values the invocation of cell c computes before it stores them
StillExact(c) == StillWaterCell(c, StillWaterParams, StillTerrainRead, StillWaterRead)
\* the outflow claimed for cell c
ClaimedOutflow(c) ==
    QMin[StillWaterRead[c].b,
         QMul[QMul[cfg.stillWaterRelaxation, StillWaterRead[c].b],
              Sum8(compute_normalized_still_water_weights(c, StillWaterParams,
                       StillTerrainRead, StillWaterRead))]]
\* <<water, sediment>> that the neighbours of cell c gather from it: the
\* neighbour in direction i reaches c in the opposite direction
GatheredFromCell(c) ==
    LET g(i) == IF is_out_of_bounds(NeighborPos(c, i), sizeX, sizeY)
                THEN <<Zero, Zero>>
                ELSE StillIncomingFrom(NeighborPos(c, i), ((i - 1 + 4) % 8) + 1,
                                       StillWaterParams, StillTerrainRead, StillWaterRead)
    IN  SumPairs(Tuple8(g))
\* the sediment that leaves with an outflow at the concentration of cell c
SedimentWith(c, outflow) ==
    IF QLt[Zero, StillWaterRead[c].b]
    THEN QMul[outflow, QDiv[StillWaterRead[c].a, StillWaterRead[c].b]]
    ELSE Zero
StillTotalRead(ch) ==
    LET e(c) == StillWaterRead[c][ch] IN GridSum(e, sizeX, sizeY)
StillTotalExact(field) ==
    LET e(c) == StillExact(c)[field] IN GridSum(e, sizeX, sizeY)
\* one unit of the last place of a stored value, for every cell of the grid
StoreSlack == Q[sizeX * sizeY, Pow2[FracBits]]

\* C24: in a still-water pass the outflow of each cell is min(stillWater,
\* relaxation * stillWater * totalOutflowWeight); its neighbours gather
\* exactly that water from it, with sediment at the cell's concentration; so
\* the totals of the still water and of the still sediment that the
\* invocations compute are the totals read, and the totals stored are those
\* up to the rounding of the stores
C24_StillWaterConserved ==
    [][StillWaterStep =>
         /\ \A c \in Cells(sizeX, sizeY) :
               /\ StillExact(c).outflow = ClaimedOutflow(c)
               /\ GatheredFromCell(c)[1] = ClaimedOutflow(c)
               /\ GatheredFromCell(c)[2] = SedimentWith(c, ClaimedOutflow(c))
               /\ StillWaterWritten'[c].b = StoreF32[StillExact(c).next_still_water]
               /\ StillWaterWritten'[c].a = StoreF32[StillExact(c).next_still_sediment]
         /\ StillTotalExact("next_still_water") = StillTotalRead("b")
         /\ StillTotalExact("next_still_sediment") = StillTotalRead("a")
         /\ LET b == LET e(c) == StillWaterWritten'[c].b IN GridSum(e, sizeX, sizeY)
                a == LET e(c) == StillWaterWritten'[c].a IN GridSum(e, sizeX, sizeY)
            IN  /\ QLe[b, StillTotalRead("b")]
                /\ QLt[QSub[StillTotalRead("b"), StoreSlack], b]
                /\ QLe[a, StillTotalRead("a")]
                /\ QLt[QSub[StillTotalRead("a"), StoreSlack], a]]_vars

-----------------------------------------------------------------------------
(* Properties of the thermal clamp                                          *)

ThermalStep == pc = "thermal" /\ log' # log
ThermalRead == terrainTex[thermalErosionBindGroup.terrain_in]
ThermalWritten == terrainTex[thermalErosionBindGroup.terrain_out]
\* the height change the invocation of cell c computes before the clamp
ThermalUnclamped(c) ==
    LET o == ThermalCell(c, <<sizeX, sizeY>>, StillWaterParams, ThermalParams,
                         ThermalRead, waterTex[thermalErosionBindGroup.water_in])
    IN  QSub[o.inflow, o.outflow]
QAbs(q) == QMax[q, QNeg[q]]

\* C25: a thermal pass changes the height of every cell by at most
\* maxDeltaPerPass in absolute value, and writes for the cell the channels
\* 1 to 3 it read for it
C25_ThermalDeltaClamped ==
    [][ThermalStep =>
         \A c \in Cells(sizeX, sizeY) :
            /\ QLe[QAbs(QSub[ThermalWritten'[c].r, ThermalRead[c].r]),
                   cfg.thermalMaxDeltaPerPass]
            /\ ThermalWritten'[c].g = ThermalRead[c].g
            /\ ThermalWritten'[c].b = ThermalRead[c].b
            /\ ThermalWritten'[c].a = ThermalRead[c].a]_vars
\* after a pass with a positive clamp: a cell whose slopes asked for more
\* has changed by exactly the clamp, a cell has changed by less
C25_Witness ==
    /\ log = <<"Thermal">> /\ QLt[Zero, cfg.thermalMaxDeltaPerPass]
    /\ \E c \in Cells(sizeX, sizeY) :
          /\ QLt[cfg.thermalMaxDeltaPerPass, QAbs(ThermalUnclamped(c))]
          /\ QAbs(QSub[ThermalWritten[c].r, ThermalRead[c].r]) = cfg.thermalMaxDeltaPerPass
    /\ \E c \in Cells(sizeX, sizeY) :
          /\ ThermalWritten[c].r # ThermalRead[c].r
          /\ QLt[QAbs(QSub[ThermalWritten[c].r, ThermalRead[c].r]), cfg.thermalMaxDeltaPerPass]

-----------------------------------------------------------------------------
(* Properties of the ping-pong bindings                                     *)

\* the grid instances the dispatch of stage pc binds as inputs and as outputs
StageReads ==
    CASE pc = "jfa" -> {<<"distance", JfaStageBind.inputTex>>}
      [] pc = "blend" -> {<<"distance", "Ping">>}
      [] pc = "hydraulic" ->
           {<<"terrain", erosionBindGroup.terrain_input_tex>>,
            <<"water", erosionBindGroup.water_input_tex>>}
      [] pc = "stillwater" ->
           {<<"terrain", stillWaterRedistributionBindGroup.terrain_tex>>,
            <<"water", stillWaterRedistributionBindGroup.water_input_tex>>}
      [] pc = "thermal" ->
           {<<"terrain", thermalErosionBindGroup.terrain_in>>,
            <<"water", thermalErosionBindGroup.water_in>>}
      [] pc = "margolus" ->
           {<<"terrain", MargolusStageBind.terrain_tex>>,
            <<"water", MargolusStageBind.water_tex>>}
      [] OTHER -> {}
StageWrites ==
    CASE pc = "jfa" -> {<<"distance", JfaStageBind.outputTex>>}
      [] pc = "hydraulic" ->
           {<<"terrain", erosionBindGroup.terrain_output_tex>>,
            <<"water", erosionBindGroup.water_output_tex>>}
      [] pc = "stillwater" ->
           {<<"water", stillWaterRedistributionBindGroup.water_output_tex>>}
      [] pc = "thermal" -> {<<"terrain", thermalErosionBindGroup.terrain_out>>}
      [] pc = "margolus" -> {<<"water", MargolusStageBind.water_out_tex>>}
      [] OTHER -> {}
\* the step is a kernel dispatch
DispatchStep == DispatchNext /\ log' # log
\* the grid instances whose content the step changes
ChangedInstances ==
    {<<"terrain", inst>> : inst \in {k \in {"Ping", "Pong"} : terrainTex'[k] # terrainTex[k]}}
        \cup {<<"water", inst>> : inst \in {k \in {"Ping", "Pong"} : waterTex'[k] # waterTex[k]}}
        \cup {<<"distance", inst>> : inst \in {k \in {"Ping", "Pong"} : jfaTex'[k] # jfaTex[k]}}

WritersOf(g) ==
    {i \in 1 .. Len(log) :
        log[i] \in (CASE g = "terrain" -> {"Hydraulic", "Thermal"}
                      [] g = "water" -> {"Hydraulic", "StillWater", "Margolus"}
                      [] g = "distance" -> {"JFA"})}
LastWriter(g) == CHOOSE i \in WritersOf(g) : \A j \in WritersOf(g) : j <= i
\* how many passes with the label of pass i came before it
RankOf(i) == Cardinality({j \in 1 .. i - 1 : log[j] = log[i]})
\* the instance pass i of the log wrote for grid g
WrittenBy(g, i) ==
    CASE log[i] = "Hydraulic" /\ g = "terrain" -> erosionBindGroup.terrain_output_tex
      [] log[i] = "Hydraulic" /\ g = "water" -> erosionBindGroup.water_output_tex
      [] log[i] = "StillWater" -> stillWaterRedistributionBindGroup.water_output_tex
      [] log[i] = "Thermal" -> thermalErosionBindGroup.terrain_out
      [] log[i] = "Margolus" -> IF RankOf(i) % 2 = 0 THEN "Pong" ELSE "Ping"
      [] log[i] = "JFA" -> IF RankOf(i) % 2 = 0 THEN "Pong" ELSE "Ping"
\* the instance that holds the newest content of grid g: the output of the
\* last pass that wrote g, or the instance the first copy filled
LatestInstance(g) ==
    IF WritersOf(g) = {} THEN "Ping" ELSE WrittenBy(g, LastWriter(g))

\* C19: every pass reads, for each grid, the instance written most recently;
\* the copy after the distance-field loop leaves the output of its last pass
\* in jfaTexPing, where the blend reads it, for odd and even pass counts; the
\* readback copies the
\* instances that hold the outputs of the last terrain-writing and the last
\* water-writing pass; for any number of erosion iterations and Margolus
\* passes, 0 included
C19_ReadsLatestInstance ==
    [][/\ \A g \in {"terrain", "water", "distance"} : \A inst \in {"Ping", "Pong"} :
             (DispatchStep /\ <<g, inst>> \in ChangedInstances) =>
                 inst = LatestInstance(g)'
       /\ (DispatchStep /\ pc # "blend") =>
             \A rd \in StageReads :
                 WritersOf(rd[1]) # {} => rd[2] = LatestInstance(rd[1])
       /\ (pc = "jfa" /\ pc' = "blend") =>
             jfaTex'.Ping = jfaTex[LatestInstance("distance")]
       /\ (pc = "staging" /\ pc' # pc) =>
             /\ staging'.terrain =
                   copyTextureToBuffer(terrainTex[LatestInstance("terrain")],
                                       staging.terrain, sizeX, sizeY)
             /\ staging'.water =
                   copyTextureToBuffer(waterTex[LatestInstance("water")],
                                       staging.water, sizeX, sizeY)]_vars
\* a finished run without any erosion iteration or Margolus pass, after an
\* odd number of distance-field passes: the staging buffer holds the blended
\* terrain, which was computed from the distances copied to jfaTexPing
C19_Witness ==
    /\ pc = "done" /\ jfaPasses % 2 = 1
    /\ cfg.iterations = 0 /\ cfg.margolusPasses = 0
    /\ jfaTex.Ping = jfaTex.Pong
    /\ terrainTex.Ping = blendedTerrainTex
    /\ staging.terrain[0] = terrainTex.Ping[<<0, 0>>]

-----------------------------------------------------------------------------
(* Properties of the droplet injection                                      *)

\* the step is a hydraulic pass
HydraulicStep == pc = "hydraulic" /\ pc' # pc
\* the hydraulic passes so far: the 0-based index of the next one
HydraulicPassesDone == Cardinality({k \in 1 .. Len(log) : log[k] = "Hydraulic"})
\* the cells whose hash of (coordinate, randomSeed, i) is below spawnDensity
HashBelowDensity(i) ==
    {c \in Cells(sizeX, sizeY) :
        QLt[hash_to_float(pcg2d(U32Add(U32(c[1]), U32(cfg.randomSeed)),
                                U32Add(U32(c[2]), U32(i)))),
            cfg.spawnDensity]}
SpawnCells(i) == IF i < cfg.spawnCycles THEN HashBelowDensity(i) ELSE {}
\* the water all droplets of the passes 0 .. n - 1 add
RECURSIVE InjectedUpTo(_)
InjectedUpTo(n) ==
    IF n = 0 THEN Zero
    ELSE QAdd[InjectedUpTo(n - 1),
              QMul[QInt[Cardinality(SpawnCells(n - 1))], DropletVolume]]

\* C20: the hydraulic pass of loop iteration i runs with iteration counter
\* i; it injects the fixed droplet volume into exactly the cells whose hash
\* of (coordinate, randomSeed, i) is below spawnDensity if i < spawnCycles,
\* and into no cell if i >= spawnCycles
C20_DropletInjection ==
    [][HydraulicStep =>
         /\ loopI = HydraulicPassesDone
         /\ erosionIteration' = HydraulicPassesDone
         /\ injected' =
               QAdd[injected,
                    QMul[QInt[Cardinality(SpawnCells(HydraulicPassesDone))],
                         DropletVolume]]
         /\ HydraulicPassesDone >= cfg.spawnCycles => injected' = injected]_vars
\* after the pass of iteration 2 of a run with two spawn cycles: passes 0 and
\* 1 injected into some cells but not all, pass 2 into none
C20_Witness ==
    /\ pc = "stillwater" /\ erosionIteration = 2 /\ cfg.spawnCycles = 2
    /\ HashBelowDensity(2) # {}
    /\ \A i \in {0, 1} : SpawnCells(i) \notin {{}, Cells(sizeX, sizeY)}
    /\ injected = InjectedUpTo(2)

-----------------------------------------------------------------------------
(* Properties of the pit handling                                           *)

PendingWeights == FlowWeightTable(ErosionParams(loopI), PendingTerrain, PendingWater)
\* the cells with flowing water and no downhill neighbour
PitCells ==
    {c \in Cells(sizeX, sizeY) :
        /\ \A i \in 1 .. 8 : PendingWeights[CellIndex(c, sizeX)][i] = Zero
        /\ QLt[Zero, PendingWater[c].r]}
\* <<water, sediment>> that the neighbours of cell c gather from it
RoutedFrom(c) ==
    LET g(i) == IF is_out_of_bounds(NeighborPos(c, i), sizeX, sizeY)
                THEN <<Zero, Zero>>
                ELSE IncomingFrom(NeighborPos(c, i), ((i - 1 + 4) % 8) + 1,
                                  ErosionParams(loopI), PendingTerrain,
                                  PendingWater, PendingWeights)
    IN  SumPairs(Tuple8(g))
\* what cell c gathers from its neighbours, the water after evaporation
GatheredWater(c) == QMul[PendingCell(c).inflow[1], QSub[One, cfg.evapRate]]
GatheredSediment(c) == PendingCell(c).inflow[2]
\* the part of the gathered water above the cap and its share of sediment
SpilledWater(c) == QMax[Zero, QSub[GatheredWater(c), MAX_WATER_PER_CELL]]
SpilledSediment(c) ==
    IF QLt[Zero, SpilledWater(c)]
    THEN QMul[GatheredSediment(c), QDiv[SpilledWater(c), GatheredWater(c)]]
    ELSE Zero
\* the deposit of a pit and what is left of a pool that gives its share
PitSedimentOf(c) == QAdd[PendingWater[c].g, PendingWater[c].a]
PitDepositOf(c) == QMul[cfg.depositionRate, PitSedimentOf(c)]
PoolAfter(c, pool) ==
    IF QLt[Zero, PitSedimentOf(c)]
    THEN QSub[pool, QMul[PitDepositOf(c), QDiv[pool, PitSedimentOf(c)]]]
    ELSE pool
HydraulicWritten == waterTex[erosionBindGroup.water_output_tex]
\* what holds for a pit with or without a spill: nothing of its flowing
\* water is routed or kept, the deposit goes to the terrain
PitCommon(c) ==
    /\ RoutedFrom(c) = <<Zero, Zero>>
    /\ PendingCell(c).next_flowing_water =
          QAdd[PendingCell(c).spawned, QMin[GatheredWater(c), MAX_WATER_PER_CELL]]
    /\ PendingCell(c).next_height = QAdd[PendingTerrain[c].r, PitDepositOf(c)]
    /\ terrainTex'[erosionBindGroup.terrain_output_tex][c].r =
          StoreF32[PendingCell(c).next_height]
    /\ HydraulicWritten'[c].b = StoreF32[PendingCell(c).next_still_water]
    /\ HydraulicWritten'[c].a = StoreF32[PendingCell(c).next_still_sediment]

\* C26 (as claimed): in a hydraulic pass a cell with flowing water w > 0
\* and all flow weights 0 adds exactly w * (1 - evapRate) to its still
\* water, routes none of its flowing water to a neighbour and keeps none as
\* flowing water; the deposit depositionRate * (flowing + still sediment)
\* goes to the terrain, taken from the two pools in proportion, and the
\* still-sediment pool becomes what is left of both
C26_PitAsClaimed ==
    [][HydraulicStep =>
         \A c \in PitCells :
            /\ PitCommon(c)
            /\ PendingCell(c).next_still_water =
                  QAdd[PendingWater[c].b,
                       QMul[PendingWater[c].r, QSub[One, cfg.evapRate]]]
            /\ PendingCell(c).next_still_sediment =
                  QAdd[PoolAfter(c, PendingWater[c].g), PoolAfter(c, PendingWater[c].a)]]_vars

\* C26 (corrected): as claimed, but the still water also takes the part of
\* the water gathered from the neighbours (after evaporation) that is above
\* MAX_WATER_PER_CELL, and the still-sediment pool the share of the
\* gathered sediment that goes with it
C26_PitHandling ==
    [][HydraulicStep =>
         \A c \in PitCells :
            /\ PitCommon(c)
            /\ PendingCell(c).next_still_water =
                  QAdd[QAdd[PendingWater[c].b,
                            QMul[PendingWater[c].r, QSub[One, cfg.evapRate]]],
                       SpilledWater(c)]
            /\ PendingCell(c).next_still_sediment =
                  QAdd[QAdd[PoolAfter(c, PendingWater[c].g),
                            PoolAfter(c, PendingWater[c].a)],
                       SpilledSediment(c)]
            /\ PendingCell(c).next_flowing_sediment =
                  QSub[GatheredSediment(c), SpilledSediment(c)]]_vars
\* after the pass: a pit that held sediment in both pools has deposited and
\* has gathered more water than the cap, with sediment
C26_Witness ==
    /\ pc = "stillwater" /\ log = <<"Hydraulic">>
    /\ \E c \in PitCells :
          /\ QLt[Zero, PendingWater[c].g] /\ QLt[Zero, PendingWater[c].a]
          /\ QLt[Zero, SpilledWater(c)] /\ QLt[Zero, SpilledSediment(c)]
          /\ QLt[PendingTerrain[c].r, terrainTex[erosionBindGroup.terrain_output_tex][c].r]
          /\ QLt[QAdd[PendingWater[c].b, QMul[PendingWater[c].r, QSub[One, cfg.evapRate]]],
                 HydraulicWritten[c].b]

-----------------------------------------------------------------------------
(* Properties of the blend                                                  *)

BlendStep == pc = "blend" /\ log' # log
\* the normalized distance d of cell c and the blend factor b
NormalizedDistance(c) ==
    IF QLe[MaxDist(jfaMaxBuffer), Zero] THEN Zero
    ELSE QClamp[QDiv[jfaTex.Ping[c].a, MaxDist(jfaMaxBuffer)], Zero, One]
BlendFactor ==
    QClamp[QDiv[cfg.distanceWeight, QAdd[cfg.heightmapWeight, cfg.distanceWeight]],
           Zero, One]
InvertedNoise(c) == QSub[One, noiseTex[c].r]

\* C27: the blend writes for every cell the height mix(1 - noiseHeight, d, b)
\* with d = clamp(distance / maxDistance, 0, 1), or 0 if maxDistance <= 0,
\* and b = clamp(distanceWeight / (heightmapWeight + distanceWeight), 0, 1);
\* with distanceWeight = 0 < heightmapWeight it writes 1 - noiseHeight, with
\* heightmapWeight = 0 < distanceWeight it writes d; d is in [0, 1]
C27_BlendFormula ==
    [][BlendStep =>
         \A c \in Cells(sizeX, sizeY) :
            /\ blendedTerrainTex'[c].r =
                  StoreF32[QMix[InvertedNoise(c), NormalizedDistance(c), BlendFactor]]
            /\ blendedTerrainTex'[c].g = blendedTerrainTex'[c].r
            /\ blendedTerrainTex'[c].b = blendedTerrainTex'[c].r
            /\ QLe[Zero, NormalizedDistance(c)] /\ QLe[NormalizedDistance(c), One]
            /\ (cfg.distanceWeight = Zero /\ QLt[Zero, cfg.heightmapWeight]) =>
                  blendedTerrainTex'[c].r = InvertedNoise(c)
            /\ (cfg.heightmapWeight = Zero /\ QLt[Zero, cfg.distanceWeight]) =>
                  blendedTerrainTex'[c].r = StoreF32[NormalizedDistance(c)]]_vars
\* after a blend with both weights positive: a cell whose noise height and
\* normalized distance are both strictly between 0 and 1 holds a height that
\* is neither of the two blended values
C27_Witness ==
    /\ pc = "copyBlend"
    /\ QLt[Zero, BlendFactor] /\ QLt[BlendFactor, One]
    /\ \E c \in Cells(sizeX, sizeY) :
          /\ QLt[Zero, NormalizedDistance(c)] /\ QLt[NormalizedDistance(c), One]
          /\ QLt[Zero, InvertedNoise(c)] /\ QLt[InvertedNoise(c), One]
          /\ blendedTerrainTex[c].r \notin {InvertedNoise(c), StoreF32[NormalizedDistance(c)]}

-----------------------------------------------------------------------------
(* Properties of the distance-field loop                                    *)

\* the step is a distance-field pass
JfaPassStep == pc = "jfa" /\ log' # log
\* the distance-field passes so far: the 0-based index of the next one
JfaPassesDone == Cardinality({k \in 1 .. Len(log) : log[k] = "JFA"})
\* floor(log2(n)) + 1: the k with 2^(k-1) <= n < 2^k
BitLength(n) == CHOOSE k \in 1 .. 16 : Pow2[k - 1] <= n /\ n < Pow2[k]
\* the step size claimed for pass i
ClaimedStep(i) ==
    IF i = 0 THEN 1
    ELSE IF MaxSize \div Pow2[i] > 1 THEN MaxSize \div Pow2[i] ELSE 1

\* C21: the distance-field loop runs floor(log2(max(W,H))) + 1 passes; pass 0
\* is dispatched with step size 1 and pass i >= 1 with max(1, max(W,H) >> i)
\* in its parameter block, which is the step size the pass works with; the
\* max-reduction flag is 1 on the last pass and 0 on the others
C21_JfaPassSchedule ==
    [][/\ JfaPassStep =>
             /\ JfaPassesDone < BitLength(MaxSize)
             /\ jfaParams'.stepSize = ClaimedStep(JfaPassesDone)
             /\ jfaParams'.gridWidth = sizeX /\ jfaParams'.gridHeight = sizeY
             /\ jfaParams'.computeMax =
                   IF JfaPassesDone = BitLength(MaxSize) - 1 THEN 1 ELSE 0
             /\ jfaTex'[JfaStageBind.outputTex] =
                   JfaPass(jfaParams'.stepSize, sizeX, sizeY,
                           jfaTex[JfaStageBind.inputTex],
                           jfaTex[JfaStageBind.outputTex])
       /\ (pc = "jfa" /\ pc' = "blend") => JfaPassesDone = BitLength(MaxSize)]_vars
\* the loop has ended on a 5x3 grid: three passes, the last one with step
\* size 5 >> 2 = 1 and the max-reduction flag
C21_Witness ==
    /\ pc = "blend" /\ sizeX = 5 /\ sizeY = 3 /\ JfaPassesDone = 3
    /\ jfaParams.stepSize = 1 /\ jfaParams.computeMax = 1


-----------------------------------------------------------------------------
(* Properties of the distance-field texels                                  *)

\* the cells that are seeds in the initial seed grid
InitialSeeds == {s \in Cells(sizeX, sizeY) : ~QLt[jfaSeedTex[s].r, Zero]}
\* q is the Euclidean distance between cells c and s, to the precision stored
IsEuclidean(q, c, s) ==
    LET d2 == QInt[(c[1] - s[1]) * (c[1] - s[1]) + (c[2] - s[2]) * (c[2] - s[2])]
        up == QAdd[q, Q[1, Pow2[FracBits]]]
    IN  /\ QLe[Zero, q]
        /\ QLe[QMul[q, q], d2]
        /\ QLt[d2, QMul[up, up]]
\* texel t of cell c holds an initial seed, its height, and the distance to it
HoldsInitialSeed(c, t) ==
    \E s \in InitialSeeds :
        /\ t.r = QInt[s[1]] /\ t.g = QInt[s[2]]
        /\ jfaSeedTex[s] = SeedTexel(s[1], s[2], t.b)
        /\ IsEuclidean(t.a, c, s)
JfaRead == jfaTex[JfaStageBind.inputTex]
JfaWritten == jfaTex'[JfaStageBind.outputTex]

\* C29: what a distance-field pass stores in a cell is either the sentinel
\* ((-1,-1), height 0, the no-seed distance) or the coordinate and height of
\* a seed of the initial seed grid with the Euclidean distance from the cell
\* to that seed; the stored distance is never larger than the one the pass
\* read for the cell, and a cell read with a seed is stored with a seed
C29_SeedOrSentinel ==
    [][JfaPassStep =>
          \A c \in Cells(sizeX, sizeY) :
              /\ \/ JfaWritten[c] = SentinelTexel
                 \/ HoldsInitialSeed(c, JfaWritten[c])
              /\ QLe[JfaWritten[c].a, JfaRead[c].a]
              /\ ~QLt[JfaRead[c].r, Zero] => ~QLt[JfaWritten[c].r, Zero]]_vars
\* after two passes of a two-seed grid a cell holds the sentinel where the
\* pass before had left it, and another holds a seed nearer than the seed
\* that pass had left in it
C29_Witness ==
    /\ pc = "jfa" /\ JfaPassesDone >= 2 /\ Cardinality(InitialSeeds) = 2
    /\ \E c \in Cells(sizeX, sizeY) :
          /\ jfaTex[JfaStageBind.inputTex][c] = SentinelTexel
          /\ jfaTex[JfaStageBind.outputTex][c] = SentinelTexel
    /\ \E c \in Cells(sizeX, sizeY) :
          /\ ~QLt[jfaTex[JfaStageBind.outputTex][c].r, Zero]
          /\ HoldsInitialSeed(c, jfaTex[JfaStageBind.inputTex][c])
          /\ jfaTex[JfaStageBind.inputTex][c].r # jfaTex[JfaStageBind.outputTex][c].r
          /\ QLt[jfaTex[JfaStageBind.inputTex][c].a, jfaTex[JfaStageBind.outputTex][c].a]
-----------------------------------------------------------------------------
(* Properties of the parameter blocks                                       *)

\* the step submits a dispatch / is the completion of a dispatch
SubmitStep == sched = Idle /\ sched' # Idle
CompleteStep == sched # Idle /\ sched' = Idle
\* the Margolus sub-passes so far: the 0-based index of the next one
MargolusSubPassesDone == Cardinality({k \in 1 .. Len(log) : log[k] = "Margolus"})
\* the offsets claimed for the four sub-passes of a pass
ClaimedOffsets == <<(<<0, 0>>), (<<1, 0>>), (<<0, 1>>), (<<1, 1>>)>>

\* C22: the parameter blocks change only when the orchestrator submits a
\* dispatch, never while one executes; sub-pass k of the equilibration is
\* submitted with offset number k mod 4 of (0,0), (1,0), (0,1), (1,1) and the
\* configured bisection count in its block, and what the sub-pass has written
\* when it completes is what the kernel computes with that block
C22_MargolusParameters ==
    [][/\ (margolusParams' # margolusParams \/ jfaParams' # jfaParams
            \/ erosionIteration' # erosionIteration) => SubmitStep
       /\ (pc = "margolus" /\ SubmitStep) =>
             margolusParams' =
                 [offset_x |-> ClaimedOffsets[(MargolusSubPassesDone % 4) + 1][1],
                  offset_y |-> ClaimedOffsets[(MargolusSubPassesDone % 4) + 1][2],
                  num_iterations |-> cfg.margolusBinarySearchIterations]
       /\ (pc = "margolus" /\ CompleteStep) =>
             waterTex[MargolusStageBind.water_out_tex] =
                 MargolusPass(margolusParams, sizeX, sizeY, cfg.waterHeightFactor,
                              sched.begin.terrainTex[MargolusStageBind.terrain_tex],
                              sched.begin.waterTex[MargolusStageBind.water_tex],
                              sched.begin.waterTex[MargolusStageBind.water_out_tex])]_vars
\* the fourth sub-pass of a pass has completed: its block holds offset (1,1)
C22_Witness ==
    /\ pc = "margolus" /\ sched = Idle /\ MargolusSubPassesDone = 4
    /\ margolusParams.offset_x = 1 /\ margolusParams.offset_y = 1
    /\ margolusParams.num_iterations = cfg.margolusBinarySearchIterations

-----------------------------------------------------------------------------
(* Properties of the workgroup reduction                                    *)

\* no slot is written by one invocation and read or written by another in
\* the same barrier interval
ReductionRaceFree ==
    \A k \in Intervals : \A li \in 0 .. 255 : \A slot \in SlotWrites(li, k) :
        \A lj \in 0 .. 255 :
            lj # li => slot \notin SlotWrites(lj, k) \cup SlotReads(lj, k)
\* the quantized distances the 256 invocations of workgroup g contribute:
\* those of its in-grid cells, and 0 for an invocation outside the grid
WorkgroupContributions(g, tex) ==
    {Quantize(tex[c].a) : c \in {d \in Cells(sizeX, sizeY) : WgOf(d) = g}}
        \cup (IF (g[1] + 1) * WORKGROUP_SIZE > sizeX \/ (g[2] + 1) * WORKGROUP_SIZE > sizeY
               THEN {<<0, 0>>} ELSE {})
WorkgroupMax(g, tex) ==
    CHOOSE m \in WorkgroupContributions(g, tex) :
        \A o \in WorkgroupContributions(g, tex) : U32Max(m, o) = m
\* the step is an atomicMax of some workgroup
AtomicStep == sched # Idle /\ sched' # Idle /\ sched'.atomics # sched.atomics

\* C23: in the final distance-field pass the reduction of each workgroup has
\* no slot written by one invocation and touched by another between two
\* barriers and leaves in slot 0 the largest quantized distance of the 256
\* invocations (0 for those outside the grid); each workgroup does exactly
\* one atomicMax, with that value; a non-final pass does none and leaves
\* the accumulator alone
C23_WorkgroupReduction ==
    [][/\ (pc = "jfa" /\ SubmitStep) =>
             IF jfaParams'.computeMax = 1
             THEN /\ sched'.atomics = Workgroups(sizeX, sizeY)
                  /\ ReductionRaceFree
             ELSE sched'.atomics = {}
       /\ AtomicStep =>
             \E g \in sched.atomics :
                /\ sched'.atomics = sched.atomics \ {g}
                /\ LocalMaxAfter(8, 0, g, sizeX, sizeY, jfaTex[JfaStageBind.outputTex])
                      = WorkgroupMax(g, jfaTex[JfaStageBind.outputTex])
                /\ jfaMaxBuffer' = U32Max(jfaMaxBuffer,
                                          WorkgroupMax(g, jfaTex[JfaStageBind.outputTex]))
       /\ (sched # Idle /\ jfaMaxBuffer' # jfaMaxBuffer) => AtomicStep
       /\ CompleteStep => sched.atomics = {}]_vars
\* the final pass on two workgroups: one has done its atomicMax, with a
\* distance that is neither 0 nor saturated, the other has not yet
C23_Witness ==
    /\ FinalJfaPassRunning /\ Cardinality(Workgroups(sizeX, sizeY)) = 2
    /\ Cardinality(sched.atomics) = 1
    /\ jfaMaxBuffer \notin {<<0, 0>>, <<U16 - 1, U16 - 1>>}


-----------------------------------------------------------------------------
(* Properties of the Margolus blocks                                       *)

\* the invocations of a sub-pass that store to cell c
MargolusWriters(c, params, sx, sy) ==
    {g \in ProcessedAnchors(params, sx, sy) : c \in MargolusWrites(g, params, sx, sy)}
\* no cell of the grid is stored to by two invocations, and an invocation
\* stores inside the 2x2 block it anchors
BlocksDisjoint(params, sx, sy) ==
    /\ \A c \in Cells(sx, sy) : Cardinality(MargolusWriters(c, params, sx, sy)) <= 1
    /\ \A g \in ProcessedAnchors(params, sx, sy) :
          MargolusWrites(g, params, sx, sy) \subseteq
              {<<g[1] + dx, g[2] + dy>> : dx \in 0 .. 1, dy \in 0 .. 1}
\* the step runs one unit of the dispatch in flight
InvokeStep == sched # Idle /\ sched' # Idle /\ sched'.pending # sched.pending
UnitRun == CHOOSE u \in sched.pending : u \notin sched'.pending
\* the sub-pass computed in one go from the textures it was submitted with
MargolusFromBegin ==
    MargolusPass(margolusParams, sizeX, sizeY, cfg.waterHeightFactor,
                 sched.begin.terrainTex[MargolusStageBind.terrain_tex],
                 sched.begin.waterTex[MargolusStageBind.water_tex],
                 sched.begin.waterTex[MargolusStageBind.water_out_tex])

\* C28: in a Margolus sub-pass, for each grid size and each of the four
\* offsets, the blocks of different invocations are pairwise disjoint: no cell
\* is stored to by more than one invocation; the sub-pass reads one water
\* texture and stores to the other, so whatever ran before them, the
\* invocations of a unit store exactly what the sub-pass computes from the
\* textures it was submitted with, and leave every other cell alone
C28_BlocksDisjoint ==
    [][/\ (pc = "margolus" /\ SubmitStep) =>
             /\ \A sz \in MargolusSizes : BlocksDisjoint(margolusParams', sz[1], sz[2])
             /\ MargolusStageBind.water_tex # MargolusStageBind.water_out_tex
       /\ (pc = "margolus" /\ InvokeStep) =>
             /\ waterTex'[MargolusStageBind.water_out_tex] =
                    MergeGrid(waterTex[MargolusStageBind.water_out_tex],
                              MargolusFromBegin, UnitWrites(UnitRun))
             /\ waterTex'[MargolusStageBind.water_tex] =
                    sched.begin.waterTex[MargolusStageBind.water_tex]
             /\ terrainTex' = sched.begin.terrainTex]_vars
\* a sub-pass in flight with two blocks, one stored and one still to run, and
\* the stored block holds a level the input did not
C28_Witness ==
    /\ pc = "margolus" /\ sched # Idle
    /\ \E g1, g2 \in ProcessedAnchors(margolusParams, sizeX, sizeY) :
          /\ g1 # g2
          /\ \A u \in sched.pending : g1 \notin u
          /\ \E u \in sched.pending : g2 \in u
          /\ \E c \in MargolusWrites(g1, margolusParams, sizeX, sizeY) :
                waterTex[MargolusStageBind.water_out_tex][c] #
                    sched.begin.waterTex[MargolusStageBind.water_tex][c]

-----------------------------------------------------------------------------
(* Properties of the bisection                                              *)

\* the block of anchor g over the still water `water`: its valid cells, their
\* heights, and its total water in height units
BlockMask(g) == _precompute_mask(g[1], g[2], sizeX, sizeY)
BlockValid(g) == {i \in 1 .. 4 : BlockMask(g)[i]}
BlockHeights(g) ==
    _load_block(g[1], g[2], BlockMask(g), terrainTex[MargolusStageBind.terrain_tex])
BlockTotal(g, water) ==
    LET w(i) == IF i \in BlockValid(g)
                THEN QMul[water[BlockCell(g[1], g[2], i)].b, cfg.waterHeightFactor]
                ELSE Zero
    IN  Sum4(<<w(1), w(2), w(3), w(4)>>)
MinValid(g) ==
    CHOOSE m \in {BlockHeights(g)[i] : i \in BlockValid(g)} :
        \A i \in BlockValid(g) : QLe[m, BlockHeights(g)[i]]
MaxValid(g) ==
    CHOOSE m \in {BlockHeights(g)[i] : i \in BlockValid(g)} :
        \A i \in BlockValid(g) : QLe[BlockHeights(g)[i], m]
\* sum over the valid cells of max(0, L - height)
Submerged(g, L) ==
    LET t(i) == IF i \in BlockValid(g)
                THEN QMax[Zero, QSub[L, BlockHeights(g)[i]]] ELSE Zero
    IN  Sum4(<<t(1), t(2), t(3), t(4)>>)
\* the exact level: with the cells of S under water it is (total + sum of
\* their heights) / |S|, for the S that makes the sum come out
ExactLevel(g, water) ==
    LET h(S, i) == IF i \in S THEN BlockHeights(g)[i] ELSE Zero
        L(S) == QDiv[QAdd[BlockTotal(g, water), Sum4(<<h(S, 1), h(S, 2), h(S, 3), h(S, 4)>>)],
                     QInt[Cardinality(S)]]
    IN  CHOOSE lv \in {L(S) : S \in (SUBSET BlockValid(g)) \ {{}}} :
            Submerged(g, lv) = BlockTotal(g, water)
\* the intervals of the search started from the claimed interval
ClaimedInterval(g, water) ==
    <<MinValid(g),
      QAdd[MaxValid(g), QDiv[BlockTotal(g, water), QInt[Cardinality(BlockValid(g))]]]>>
BisectTrace(g, water) ==
    BisectLoop(BlockHeights(g), BlockMask(g), BlockTotal(g, water),
               ClaimedInterval(g, water), margolusParams'.num_iterations)
LevelOf(g, water) ==
    MargolusLevel(g, margolusParams', sizeX, sizeY, cfg.waterHeightFactor,
                  terrainTex[MargolusStageBind.terrain_tex], water)
\* the still water stored for a cell of height h under level lv
StoredUnder(lv, h) ==
    StoreF32[QDiv[QMax[Zero, QSub[lv, h]], QMax[cfg.waterHeightFactor, TinyFactor]]]

\* C30: for every block a sub-pass processes with total water > 0, the
\* search starts from [min valid height, max valid height + total / count];
\* this interval and the one after each iteration hold the exact level L*,
\* at which the sum over the valid cells of max(0, L* - height) is the total;
\* each iteration halves the width, and the level used for the block is the
\* midpoint of the last interval.  With total water <= 0 the level is the
\* minimum valid height and every cell of the block is stored with 0 still
\* water.
C30_BisectionBracket ==
    [][MargolusSubPassStep =>
         \A g \in ProcessedAnchors(margolusParams', sizeX, sizeY) :
           \A tr \in {BisectTrace(g, CurrentWater)}, lv \in {LevelOf(g, CurrentWater)} :
               /\ BlockValid(g) # {}
               /\ QLt[Zero, BlockTotal(g, CurrentWater)] =>
                     /\ Len(tr) = margolusParams'.num_iterations + 1
                     /\ \A exact \in {ExactLevel(g, CurrentWater)} :
                           \A k \in 1 .. Len(tr) :
                               QLe[tr[k][1], exact] /\ QLe[exact, tr[k][2]]
                     /\ \A k \in 1 .. Len(tr) - 1 :
                           QSub[tr[k + 1][2], tr[k + 1][1]] =
                               QMul[Half, QSub[tr[k][2], tr[k][1]]]
                     /\ lv = QMul[Half, QAdd[tr[Len(tr)][1], tr[Len(tr)][2]]]
               /\ QLe[BlockTotal(g, CurrentWater), Zero] =>
                     /\ lv = MinValid(g)
                     /\ \A i \in BlockValid(g) :
                           waterTex'[MargolusStageBind.water_out_tex]
                                    [BlockCell(g[1], g[2], i)].b = Zero
               /\ \A i \in BlockValid(g) :
                     waterTex'[MargolusStageBind.water_out_tex]
                              [BlockCell(g[1], g[2], i)].b =
                         StoredUnder(lv, BlockHeights(g)[i])]_vars
\* the water the last sub-pass read
PreviousWater == waterTex[IF currIsPing THEN "Pong" ELSE "Ping"]
\* after the first sub-pass: one block had no water and holds none, and one
\* had water over cells of different heights and holds other still water
\* than it did
C30_Witness ==
    /\ pc = "margolus" /\ loopI = 1
    /\ \E g \in ProcessedAnchors(margolusParams, sizeX, sizeY) :
          /\ QLe[BlockTotal(g, PreviousWater), Zero]
          /\ \A i \in BlockValid(g) : CurrentWater[BlockCell(g[1], g[2], i)].b = Zero
    /\ \E g \in ProcessedAnchors(margolusParams, sizeX, sizeY) :
          /\ QLt[Zero, BlockTotal(g, PreviousWater)]
          /\ MinValid(g) # MaxValid(g)
          /\ QLt[MinValid(g), ExactLevel(g, PreviousWater)]
          /\ \E i \in BlockValid(g) :
                CurrentWater[BlockCell(g[1], g[2], i)].b #
                    PreviousWater[BlockCell(g[1], g[2], i)].b
-----------------------------------------------------------------------------
(* Properties of the page around the pipeline                              *)

\* C11: a run whose configuration has a non-positive dimension or a
\* non-finite parameter is rejected with an error before any parameter
\* buffer is written and before any dispatch is submitted.
C11_InvalidConfigRejected ==
    \A r \in RunIds :
        host.runs[r].kind # "ok" =>
            /\ host.runs[r].writes = 0
            /\ host.runs[r].submits = 0
            /\ RunPhase(r) \in {"finally", "settled"} => host.runs[r].threw

\* C12: the steps of a run that has failed (the device threw, or mapping a
\* staging buffer was rejected) never change what the canvases and the scene
\* show, neither shows that run's data, and when the run has settled the
\* run button's loading indicator is cleared.
FailedRunStep(r) ==
    /\ host'.runs[r].threw
    /\ host'.runs[r].phase # host.runs[r].phase
-----------------------------------------------------------------------------
(* Properties of the scheduled run                                         *)

SchedComplete == sched # Idle /\ sched.pending = {} /\ sched.atomics = {}
\* what the dispatch of stage pc makes of the textures S when every
\* invocation reads S and the atomic maxima are taken in a fixed order
ScheduleFree(S) ==
    [StageResult(S) EXCEPT
        !.jfaMaxBuffer =
            IF JfaComputesMax
            THEN AtomicMaxAll(S.jfaMaxBuffer, Workgroups(sizeX, sizeY), sizeX, sizeY,
                              StageResult(S).jfaTex[JfaStageBind.outputTex])
            ELSE @]
\* the part of the parameter block droplet spawning may read
SpawnParams ==
    [iteration |-> loopI, spawn_cycles |-> cfg.spawnCycles,
     random_seed |-> cfg.randomSeed, spawn_density |-> cfg.spawnDensity]

\* C10: the outcome of a run does not depend on the order in which the
\* invocations and workgroups of a dispatch run, atomic maxima included:
\* whenever a dispatch has completed, the textures and the max buffer are
\* the ones determined by the textures at the start of the dispatch; and
\* whether a cell spawns a droplet is determined by the cell, the random
\* seed and the iteration.
C10_ScheduleIndependent ==
    SchedComplete =>
        /\ Textures = ScheduleFree(sched.begin)
        /\ pc = "hydraulic" =>
              \A c \in Cells(sizeX, sizeY) :
                  should_spawn_droplet(c, ErosionParams(loopI))
                      = should_spawn_droplet(c, SpawnParams)

\* a completed hydraulic dispatch that moved water, in a run whose max buffer
\* was written by the atomic maxima of two workgroups
C10_Witness ==
    /\ SchedComplete /\ pc = "hydraulic" /\ loopI = 1
    /\ Cardinality(Workgroups(sizeX, sizeY)) = 2
    /\ jfaMaxBuffer # <<0, 0>>
    /\ \E c \in Cells(sizeX, sizeY) :
          QLt[Half, waterTex[erosionBindGroup.water_output_tex][c].r]

====
